---- MODULE Spec2Model ----
(***************************************************************************)
(* CanvasFlow whiteboard: the client-side document, history and            *)
(* collaboration engine of frontend/src/pages/WhiteboardPage.js, for a     *)
(* small room of clients that exchange board_update snapshots through the  *)
(* relay hub.                                                              *)
(*                                                                         *)
(* React state is modelled per client.  A handler runs against the values  *)
(* of the render it was created in (its closure, "cl") and queues state    *)
(* updates; the last queued value of a state variable wins.  For ordinary  *)
(* event handlers the closure is the current state.  The continuation of   *)
(* handleCustomPrompt after its await still runs against the render in     *)
(* which the prompt was submitted, so its closure is kept in aiReq.        *)
(***************************************************************************)
EXTENDS Integers, Sequences, FiniteSets, TLC

(* ----------------------------- bounds --------------------------------- *)
MaxObjs == 3
MaxHist == 3
MaxVersion == 3
MaxInbox == 1
MaxClock == 2
MaxPoints == 4
MaxInFlight == 1
MaxEvents == 3        \* presence events on their way to the client
MaxCursorEvents == 2  \* cursor events on their way to the client
MaxSockets == 3       \* connections one page opens

Clients == {"c1", "c2"}
\* the clients whose user edits the board in Spec; the rest of the room is
\* seen through the board_update messages the hub relays from it
Authors == {"c1"}

(* --------------------------- environment ------------------------------ *)
TOOLS == [PEN |-> "pen", SELECT |-> "select", RECTANGLE |-> "rectangle",
          CIRCLE |-> "circle", ARROW |-> "arrow", TEXT |-> "text",
          ERASER |-> "eraser"]

\* window.innerWidth / window.innerHeight of the browser window
InnerWidth == 1000
InnerHeight == 720

\* pointer positions of the canvas gestures: where the button goes down and
\* where the pointer is dragged to
DownPositions == {<<80, 90>>}
MovePositions == {<<50, 50>>}
\* the tools the user draws with
GestureTools == {TOOLS.RECTANGLE, TOOLS.TEXT}
\* the tools the user clicks an object with
ClickTools == {TOOLS.ERASER}
\* node positions reported by e.target.x() / e.target.y() at drag end
DragTargets == {<<10, 20>>}
\* answers of window.prompt('Enter text:')  ("" stands for cancel / empty)
PromptTexts == {"", "hi"}

DrawTools == {TOOLS.PEN, TOOLS.RECTANGLE, TOOLS.CIRCLE, TOOLS.ARROW, TOOLS.TEXT}

(* ----------------------------- helpers -------------------------------- *)
Min2(a, b) == IF a <= b THEN a ELSE b
Max2(a, b) == IF a >= b THEN a ELSE b
SetMin(S) == CHOOSE m \in S : \A n \in S : m <= n
SetMax(S) == CHOOSE m \in S : \A n \in S : m >= n

\* Math.sqrt on the values the gestures produce (exact for perfect squares)
Sqrt(n) == CHOOSE r \in 0..n : r * r <= n /\ (r + 1) * (r + 1) > n

(* ------------------------------ strings ------------------------------- *)
UpperCase == "ABCDEFGHIJKLMNOPQRSTUVWXYZ"
LowerCase == "abcdefghijklmnopqrstuvwxyz"
Digits == "0123456789"

\* the character at position i (1-based), "" outside the string
CharAt(s, i) == IF i >= 1 /\ i <= Len(s) THEN SubSeq(s, i, i) ELSE ""
IndexIn(alphabet, ch) ==
  IF \E i \in 1..Len(alphabet) : CharAt(alphabet, i) = ch
  THEN CHOOSE i \in 1..Len(alphabet) : CharAt(alphabet, i) = ch
  ELSE 0

\* String.prototype.toLowerCase
RECURSIVE Lower(_)
Lower(s) ==
  IF Len(s) = 0 THEN ""
  ELSE LET ch == Head(s)
           k == IndexIn(UpperCase, ch)
       IN (IF k # 0 THEN CharAt(LowerCase, k) ELSE ch) \o Lower(Tail(s))

\* sub occurs in s at position i (1-based)
StartsAt(s, i, sub) ==
  i >= 1 /\ i + Len(sub) - 1 <= Len(s) /\ SubSeq(s, i, i + Len(sub) - 1) = sub

\* String.prototype.includes
Includes(s, sub) == \E i \in 1..(Len(s) + 1) : StartsAt(s, i, sub)

(* ----------------------------- objects -------------------------------- *)
\* ids: `${p}-${t}` has i = -1, `${p}-${t}-${i}` has i >= 0; NoId is null
NoId == [p |-> "none", t |-> 0, i |-> -1]
MkId(p, t) == [p |-> p, t |-> t, i |-> -1]
MkIdN(p, t, i) == [p |-> p, t |-> t, i |-> i]

\* the geometry payload; a field a kind does not carry keeps its default
\* (width = 0 on a text stands for "no width given")
NoData == [x |-> 0, y |-> 0, width |-> 0, height |-> 0, radius |-> 0,
           points |-> <<>>, closed |-> FALSE, text |-> "", fontSize |-> 0]

Obj(id, type, data) == [id |-> id, type |-> type, data |-> data]
NoShape == Obj(NoId, "none", NoData)

PenData(pts, closed) == [NoData EXCEPT !.points = pts, !.closed = closed]
RectData(x, y, w, h) == [NoData EXCEPT !.x = x, !.y = y, !.width = w, !.height = h]
CircleData(x, y, r) == [NoData EXCEPT !.x = x, !.y = y, !.radius = r]
ArrowData(pts) == [NoData EXCEPT !.points = pts]
TextData(x, y, t, fs, w) ==
  [NoData EXCEPT !.x = x, !.y = y, !.text = t, !.fontSize = fs, !.width = w]

(* --------------------------- Geometry Engine -------------------------- *)
NoBox == [absent |-> TRUE]
Box(x, y, w, h) == [x |-> x, y |-> y, width |-> w, height |-> h]

EvenIdx(pts) == {i \in 1..Len(pts) : i % 2 = 1}   \* JS indices 0, 2, 4, ...

\* faulty variant of getBoundingBox: the stored fields of a rectangle are
\* returned as they are
getBoundingBoxRaw(obj) ==
  IF obj = NoShape THEN NoBox
  ELSE LET data == obj.data IN
    CASE obj.type = TOOLS.RECTANGLE -> Box(data.x, data.y, data.width, data.height)
      [] obj.type = TOOLS.CIRCLE ->
           Box(data.x - data.radius, data.y - data.radius,
               data.radius * 2, data.radius * 2)
      [] obj.type = TOOLS.TEXT ->
           Box(data.x, data.y,
               IF data.width # 0 THEN data.width ELSE 120,
               IF data.fontSize # 0 THEN data.fontSize ELSE 20)
      [] OTHER -> NoBox

\* (point lists hold whole pairs: every producer appends x and y together)
getBoundingBox(obj) ==
  IF obj = NoShape THEN NoBox
  ELSE LET data == obj.data IN
    CASE obj.type = TOOLS.RECTANGLE ->
           LET x1 == Min2(data.x, data.x + data.width)
               y1 == Min2(data.y, data.y + data.height)
               x2 == Max2(data.x, data.x + data.width)
               y2 == Max2(data.y, data.y + data.height)
           IN Box(x1, y1, x2 - x1, y2 - y1)
      [] obj.type = TOOLS.CIRCLE ->
           LET r == data.radius
           IN Box(data.x - r, data.y - r, r * 2, r * 2)
      [] obj.type \in {TOOLS.PEN, TOOLS.ARROW} ->
           LET pts == data.points IN
           IF Len(pts) < 2 THEN NoBox
           ELSE LET xs == {pts[i] : i \in EvenIdx(pts)}
                    ys == {pts[i + 1] : i \in {j \in EvenIdx(pts) : j + 1 <= Len(pts)}}
                    minX == SetMin(xs)
                    maxX == SetMax(xs)
                    minY == SetMin(ys)
                    maxY == SetMax(ys)
                IN Box(minX, minY, maxX - minX, maxY - minY)
      [] obj.type = TOOLS.TEXT ->
           Box(data.x, data.y,
               IF data.width # 0 THEN data.width ELSE 120,
               IF data.fontSize # 0 THEN data.fontSize ELSE 20)
      [] OTHER -> NoBox

(* ------------------------------- state -------------------------------- *)
VARIABLES
  socket,        \* [Clients -> BOOLEAN]: the socket state variable is set
  board,         \* [Clients -> BOOLEAN]: the board has loaded (UI rendered)
  objects,       \* [Clients -> Seq(object)]
  boardVersion,  \* [Clients -> Nat]
  history,       \* [Clients -> Seq(Seq(object))]
  historyStep,   \* [Clients -> Nat], 0-based index into history
  selectedId,    \* [Clients -> id]
  isDrawing,     \* [Clients -> BOOLEAN]
  currentShape,  \* [Clients -> object or NoShape]
  aiReq,         \* [Clients -> pending AI request with its closure, or NoReq]
  inbox,         \* [Clients -> Seq(board_updated message)], relayed by the hub
  now,           \* [Clients -> Nat]: what Date.now() returns at the client
  connectedUsers, \* [Clients -> Seq(presence entry)]: the roster
  cursors,       \* [Clients -> [Users -> position or NoCursor]]
  hub,           \* the room at the hub, the events it has sent to c1 and
                 \* (left) the users whose user_left c1 handled last
  mount,         \* [Clients -> the page's mount effect and its connections]
  lastOp         \* the handler that ran in the last step and what it returned

vars == <<socket, board, objects, boardVersion, history, historyStep,
          selectedId, isDrawing, currentShape, aiReq, inbox, now,
          connectedUsers, cursors, hub, mount, lastOp>>

\* the state of presence and of the mount effect, which the handlers of
\* the document never touch
page == <<connectedUsers, cursors, hub, mount>>

NoReq == [pending |-> FALSE]

\* the React state a handler can change through its setters
St(c) == [objects |-> objects[c], history |-> history[c],
          historyStep |-> historyStep[c], boardVersion |-> boardVersion[c],
          selectedId |-> selectedId[c],
          msgs |-> <<>>,      \* the board_update messages emitted so far
          ret |-> FALSE,      \* what the operation returned
          raised |-> FALSE,   \* it threw
          created |-> 0]      \* shapesCreated of handleCustomPrompt

\* the values a handler created in the current render closes over
Closure(c) == [objects |-> objects[c], history |-> history[c],
               historyStep |-> historyStep[c],
               boardVersion |-> boardVersion[c], socket |-> socket[c]]

\* data: the input the handler was given (the message of board_updated,
\* the suggestion, the prompt, the AI reply); raised: the operation threw;
\* emitted: the board_update messages it handed to socket.emit; before:
\* the objects of the client when the handler started
NoMsg == [objects |-> <<>>, version |-> -1]
Op(name, c, ret) ==
  [op |-> name, c |-> c, ret |-> ret, raised |-> FALSE, data |-> NoMsg,
   emitted |-> <<>>, before |-> <<>>]
With(op, data) == [op EXCEPT !.data = data]

(* --------------------- Document Model / History ----------------------- *)
\* faulty variant of saveToHistory: the cursor is set to the number of
\* snapshots instead of the index of the last one
saveToHistoryPastEnd(st, cl, newObjects) ==
  LET kept == SubSeq(cl.history, 1, Min2(cl.historyStep + 1, Len(cl.history)))
      newHistory == Append(kept, newObjects)
  IN [st EXCEPT !.history = newHistory, !.historyStep = Len(newHistory)]

\* history.slice(0, historyStep + 1), push, setHistory, setHistoryStep
saveToHistory(st, cl, newObjects) ==
  LET kept == SubSeq(cl.history, 1, Min2(cl.historyStep + 1, Len(cl.history)))
      newHistory == Append(kept, newObjects)
  IN [st EXCEPT !.history = newHistory, !.historyStep = Len(newHistory) - 1]

broadcastUpdate(st, cl, newObjects) ==
  IF cl.socket
  THEN LET nextVersion == cl.boardVersion + 1
       IN [st EXCEPT !.boardVersion = nextVersion,
                     !.msgs = Append(st.msgs, [objects |-> newObjects,
                                               version |-> nextVersion])]
  ELSE st

\* setObjects; saveToHistory; broadcastUpdate (also written out inline in
\* handleMouseDown, handleMouseUp, handleClear and onDragEnd)
commitObjects(st, cl, newObjects) ==
  broadcastUpdate(saveToHistory([st EXCEPT !.objects = newObjects], cl, newObjects),
                  cl, newObjects)

\* the updates a handler queued fit the bounds of the model
Bounded(c, st) ==
  /\ Len(st.objects) <= MaxObjs
  /\ Len(st.history) <= MaxHist
  /\ st.boardVersion <= MaxVersion
  /\ \A d \in Clients \ {c} : socket[d] => Len(inbox[d]) + Len(st.msgs) <= MaxInbox

\* React applies the queued updates; the hub relays every board_update to
\* the other members of the room
Apply(c, op, st) ==
  /\ Bounded(c, st)
  /\ lastOp' = [op EXCEPT !.raised = st.raised, !.emitted = st.msgs,
                          !.before = objects[c]]
  /\ objects' = [objects EXCEPT ![c] = st.objects]
  /\ history' = [history EXCEPT ![c] = st.history]
  /\ historyStep' = [historyStep EXCEPT ![c] = st.historyStep]
  /\ boardVersion' = [boardVersion EXCEPT ![c] = st.boardVersion]
  /\ selectedId' = [selectedId EXCEPT ![c] = st.selectedId]
  /\ inbox' = [d \in Clients |->
                 IF d # c /\ socket[d] THEN inbox[d] \o st.msgs ELSE inbox[d]]
  /\ UNCHANGED page

(* ------------------------------ lifecycle ----------------------------- *)
\* what GET /boards/{id} can return; the stored rectangle was drawn up and
\* to the left in an earlier session (its id is older than this session)
R0 == Obj(MkId("shape", -1), TOOLS.RECTANGLE, RectData(80, 90, -30, -40))
StoredBoards == {[objects |-> <<>>, version |-> 0],
                 [objects |-> <<R0>>, version |-> 1]}

\* useState([]), useState({}): nobody else is shown in the room
Users == {"u1", "u2"}
NoCursor == <<>>
NoPresence ==
  /\ connectedUsers = [c \in Clients |-> <<>>]
  /\ cursors = [c \in Clients |-> [u \in Users |-> NoCursor]]
  /\ hub = [room |-> {}, events |-> <<>>, cursorEvents |-> {}, left |-> {}]

\* the page and its mount effect: sockets lists the connections io() has
\* created (TRUE: live), socket is the index of the one in the socket
\* state (0: null), effect the socket value the last run of the effect and
\* its cleanup close over, loads the GET requests of loadBoard in flight
Initial == [phase |-> "initial", sockets |-> <<>>, socket |-> 0,
            effect |-> 0, loads |-> 0]
\* the effect has run once and its GET has been answered
Mounted == [phase |-> "mounted", sockets |-> <<TRUE>>, socket |-> 1,
            effect |-> 0, loads |-> 0]

Init ==
  /\ socket = [c \in Clients |-> FALSE]
  /\ board = [c \in Clients |-> FALSE]
  /\ objects = [c \in Clients |-> <<>>]
  /\ boardVersion = [c \in Clients |-> 0]
  /\ history = [c \in Clients |-> <<>>]
  /\ historyStep = [c \in Clients |-> 0]
  /\ selectedId = [c \in Clients |-> NoId]
  /\ isDrawing = [c \in Clients |-> FALSE]
  /\ currentShape = [c \in Clients |-> NoShape]
  /\ aiReq = [c \in Clients |-> NoReq]
  /\ inbox = [c \in Clients |-> <<>>]
  /\ now = [c \in Clients |-> 0]
  /\ NoPresence
  /\ mount = [c \in Clients |-> Initial]
  /\ lastOp = Op("init", "none", FALSE)

\* the first run of the mount effect: loadBoard() is started and
\* setupSocket() creates the socket, joins the room and stores it with
\* setSocket; the cleanup this run returns closes over socket = null
setupSocket(c) ==
  /\ ~socket[c]
  /\ mount[c].phase = "initial"
  /\ socket' = [socket EXCEPT ![c] = TRUE]
  /\ mount' = [mount EXCEPT ![c] = [phase |-> "mounted", sockets |-> <<TRUE>>,
                                     socket |-> 1, effect |-> 0, loads |-> 1]]
  /\ lastOp' = Op("setupSocket", c, TRUE)
  /\ UNCHANGED <<board, objects, boardVersion, history, historyStep,
                 selectedId, isDrawing, currentShape, aiReq, inbox, now>>
  /\ UNCHANGED <<connectedUsers, cursors, hub>>

\* faulty variant of loadBoard: the loaded objects are pushed onto the
\* snapshot of the empty canvas instead of replacing the history
loadBoardPushed(c) ==
  /\ mount[c].phase = "mounted" /\ mount[c].loads > 0
  /\ \E data \in StoredBoards :
       /\ board' = [board EXCEPT ![c] = TRUE]
       /\ objects' = [objects EXCEPT ![c] = data.objects]
       /\ boardVersion' = [boardVersion EXCEPT ![c] = data.version]
       /\ history' = [history EXCEPT ![c] = << <<>>, data.objects >>]
       /\ historyStep' = [historyStep EXCEPT ![c] = 1]
  /\ mount' = [mount EXCEPT ![c].loads = @ - 1]
  /\ lastOp' = Op("loadBoard", c, TRUE)
  /\ UNCHANGED <<socket, selectedId, isDrawing, currentShape, aiReq, inbox, now>>
  /\ UNCHANGED <<connectedUsers, cursors, hub>>

\* the GET of loadBoard resolves
loadBoard(c) ==
  /\ mount[c].phase = "mounted" /\ mount[c].loads > 0
  /\ \E data \in StoredBoards :
       /\ board' = [board EXCEPT ![c] = TRUE]
       /\ objects' = [objects EXCEPT ![c] = data.objects]
       /\ boardVersion' = [boardVersion EXCEPT ![c] = data.version]
       /\ history' = [history EXCEPT ![c] = <<data.objects>>]
       /\ historyStep' = [historyStep EXCEPT ![c] = 0]
  /\ mount' = [mount EXCEPT ![c].loads = @ - 1]
  /\ lastOp' = Op("loadBoard", c, TRUE)
  /\ UNCHANGED <<socket, selectedId, isDrawing, currentShape, aiReq, inbox, now>>
  /\ UNCHANGED <<connectedUsers, cursors, hub>>

\* a handler runs while the AI request of handleCustomPrompt may be pending;
\* the request is answered before more than MaxInFlight handlers have run
Flight(c) ==
  /\ aiReq[c].pending => aiReq[c].during < MaxInFlight
  /\ aiReq' = [aiReq EXCEPT ![c] = IF @.pending THEN [@ EXCEPT !.during = @ + 1]
                                   ELSE @]

\* a handler has read Date.now(); the next gesture of this user comes at
\* least a millisecond later
Tick(c) ==
  /\ now[c] < MaxClock
  /\ now' = [now EXCEPT ![c] = now[c] + 1]

(* ------------------------- collaboration: receive --------------------- *)
\* board_update messages of room members that are not modelled as clients;
\* the member drew its circle during this session, when its Date.now() read 0
R1 == Obj(MkId("shape", 0), TOOLS.CIRCLE, CircleData(80, 90, 50))
RemoteUpdates == {[objects |-> <<R1>>, version |-> 1]}

\* the hub relays the board_update of such a member to client c
peerUpdate(c) ==
  /\ socket[c]
  /\ Len(inbox[c]) < MaxInbox
  /\ \E data \in RemoteUpdates : inbox' = [inbox EXCEPT ![c] = Append(inbox[c], data)]
  /\ lastOp' = Op("peerUpdate", c, TRUE)
  /\ UNCHANGED <<socket, board, objects, boardVersion, history, historyStep,
                 selectedId, isDrawing, currentShape, aiReq, now>>
  /\ UNCHANGED page

\* faulty variant of boardUpdatedEffect: a snapshot that is not newer than
\* the local version is ignored
boardUpdatedEffectNewer(st, data) ==
  IF data.version > st.boardVersion
  THEN [st EXCEPT !.objects = data.objects, !.boardVersion = data.version]
  ELSE st

\* faulty variant of boardUpdatedEffect: the received document is also
\* recorded as an undo step and takes the selection away
boardUpdatedEffectRecorded(st, data) ==
  [st EXCEPT !.objects = data.objects, !.boardVersion = data.version,
             !.history = Append(st.history, data.objects),
             !.historyStep = Len(st.history),
             !.selectedId = NoId]

\* newSocket.on('board_updated', ...): every emitted message carries a
\* numeric version, so the typeof test passes
boardUpdatedEffect(st, data) ==
  [st EXCEPT !.objects = data.objects, !.boardVersion = data.version]

boardUpdated(c) ==
  /\ socket[c]
  /\ Flight(c)
  /\ inbox[c] # <<>>
  /\ LET st == boardUpdatedEffect(St(c), Head(inbox[c])) IN
       /\ objects' = [objects EXCEPT ![c] = st.objects]
       /\ boardVersion' = [boardVersion EXCEPT ![c] = st.boardVersion]
       /\ history' = [history EXCEPT ![c] = st.history]
       /\ historyStep' = [historyStep EXCEPT ![c] = st.historyStep]
       /\ selectedId' = [selectedId EXCEPT ![c] = st.selectedId]
  /\ inbox' = [inbox EXCEPT ![c] = Tail(inbox[c])]
  /\ lastOp' = With(Op("board_updated", c, TRUE), Head(inbox[c]))
  /\ UNCHANGED <<socket, board, isDrawing, currentShape, now>>
  /\ UNCHANGED page

(* ------------------------------ gestures ------------------------------ *)
\* the shape handleMouseDown starts for a tool at a pointer position
startShape(t, tool, pos, text) ==
  LET x == pos[1]
      y == pos[2]
  IN Obj(MkId("shape", t), tool,
         CASE tool = TOOLS.PEN -> PenData(<<x, y>>, FALSE)
           [] tool = TOOLS.RECTANGLE -> RectData(x, y, 0, 0)
           [] tool = TOOLS.CIRCLE -> CircleData(x, y, 0)
           [] tool = TOOLS.ARROW -> ArrowData(<<x, y, x, y>>)
           [] tool = TOOLS.TEXT -> TextData(x, y, text, 20, 0))

\* selectedTool is the tool the user picked for the gesture; with SELECT or
\* ERASER the handler returns at once.  The TEXT tool asks for the text
\* and commits immediately.
handleMouseDown(c) ==
  /\ board[c]
  /\ Flight(c)
  /\ Tick(c)
  /\ \E tool \in GestureTools, pos \in DownPositions :
       IF tool = TOOLS.TEXT
       THEN \E text \in PromptTexts :
              /\ Apply(c, Op("createText", c, text # ""),
                       IF text # ""
                       THEN commitObjects(St(c), Closure(c),
                              Append(objects[c], startShape(now[c], tool, pos, text)))
                       ELSE St(c))
              /\ isDrawing' = [isDrawing EXCEPT ![c] = FALSE]
              /\ UNCHANGED currentShape
       ELSE /\ isDrawing' = [isDrawing EXCEPT ![c] = TRUE]
            /\ currentShape' = [currentShape EXCEPT
                                  ![c] = startShape(now[c], tool, pos, "")]
            /\ lastOp' = Op("mouseDown", c, TRUE)
            /\ UNCHANGED <<objects, boardVersion, history, historyStep,
                           selectedId, inbox>>
            /\ UNCHANGED page
  /\ UNCHANGED <<socket, board>>

\* the drawing branch of handleMouseMove; while the button is down
\* selectedTool is the type of currentShape
moveShape(shape, pos) ==
  LET d == shape.data
      dx == pos[1] - d.x
      dy == pos[2] - d.y
  IN CASE shape.type = TOOLS.PEN ->
            [shape EXCEPT !.data.points = d.points \o <<pos[1], pos[2]>>]
       [] shape.type = TOOLS.RECTANGLE ->
            [shape EXCEPT !.data.width = dx, !.data.height = dy]
       [] shape.type = TOOLS.CIRCLE ->
            [shape EXCEPT !.data.radius = Sqrt(dx * dx + dy * dy)]
       [] shape.type = TOOLS.ARROW ->
            [shape EXCEPT !.data.points = <<d.points[1], d.points[2], pos[1], pos[2]>>]
       [] OTHER -> shape

handleMouseMove(c) ==
  /\ board[c]
  /\ Flight(c)
  /\ isDrawing[c] /\ currentShape[c] # NoShape
  /\ Len(currentShape[c].data.points) + 2 <= MaxPoints
  /\ \E pos \in MovePositions :
       /\ currentShape[c] # moveShape(currentShape[c], pos)
       /\ currentShape' = [currentShape EXCEPT ![c] = moveShape(currentShape[c], pos)]
  /\ lastOp' = Op("mouseMove", c, TRUE)
  /\ UNCHANGED <<socket, board, objects, boardVersion, history, historyStep,
                 selectedId, isDrawing, inbox, now>>
  /\ UNCHANGED page

handleMouseUp(c) ==
  /\ board[c]
  /\ Flight(c)
  /\ isDrawing[c] /\ currentShape[c] # NoShape
  /\ Apply(c, Op("draw", c, TRUE),
           commitObjects(St(c), Closure(c), Append(objects[c], currentShape[c])))
  /\ isDrawing' = [isDrawing EXCEPT ![c] = FALSE]
  /\ currentShape' = [currentShape EXCEPT ![c] = NoShape]
  /\ UNCHANGED <<socket, board, now>>

(* ------------------------------ undo / redo --------------------------- *)
\* faulty variants of undoEffect: one restores the snapshot under the old
\* cursor, one commits the restored objects as a new snapshot
undoEffectStale(st, cl) ==
  IF cl.historyStep = 0 THEN st
  ELSE LET newStep == cl.historyStep - 1
           newObjects == cl.history[cl.historyStep + 1]
       IN broadcastUpdate([st EXCEPT !.historyStep = newStep, !.objects = newObjects],
                          cl, newObjects)

undoEffectCommit(st, cl) ==
  IF cl.historyStep = 0 THEN st
  ELSE commitObjects(st, cl, cl.history[cl.historyStep])

\* faulty variant of undoEffect: the objects of the current render are
\* broadcast instead of the restored ones
undoEffectEcho(st, cl) ==
  IF cl.historyStep = 0 THEN st
  ELSE LET newStep == cl.historyStep - 1
           newObjects == cl.history[newStep + 1]
       IN broadcastUpdate([st EXCEPT !.historyStep = newStep, !.objects = newObjects],
                          cl, cl.objects)

undoEffect(st, cl) ==
  IF cl.historyStep = 0 THEN st
  ELSE LET newStep == cl.historyStep - 1
           newObjects == cl.history[newStep + 1]
       IN broadcastUpdate([st EXCEPT !.historyStep = newStep, !.objects = newObjects],
                          cl, newObjects)

handleUndo(c) ==
  /\ board[c]
  /\ Flight(c)
  /\ Apply(c, Op("undo", c, historyStep[c] # 0), undoEffect(St(c), Closure(c)))
  /\ UNCHANGED <<socket, board, isDrawing, currentShape, now>>

\* faulty variant of redoEffect: restores the snapshot under the old cursor
redoEffectStale(st, cl) ==
  IF cl.historyStep >= Len(cl.history) - 1 THEN st
  ELSE LET newStep == cl.historyStep + 1
           newObjects == cl.history[cl.historyStep + 1]
       IN broadcastUpdate([st EXCEPT !.historyStep = newStep, !.objects = newObjects],
                          cl, newObjects)

redoEffect(st, cl) ==
  IF cl.historyStep >= Len(cl.history) - 1 THEN st
  ELSE LET newStep == cl.historyStep + 1
           newObjects == cl.history[newStep + 1]
       IN broadcastUpdate([st EXCEPT !.historyStep = newStep, !.objects = newObjects],
                          cl, newObjects)

handleRedo(c) ==
  /\ board[c]
  /\ Flight(c)
  /\ Apply(c, Op("redo", c, ~(historyStep[c] >= Len(history[c]) - 1)),
           redoEffect(St(c), Closure(c)))
  /\ UNCHANGED <<socket, board, isDrawing, currentShape, now>>

(* ----------------------- delete, clear, drag, save -------------------- *)
deleteById(st, cl, targetId) ==
  IF targetId = NoId THEN st
  ELSE LET newObjects == SelectSeq(cl.objects, LAMBDA obj : obj.id # targetId)
       IN [commitObjects(st, cl, newObjects) EXCEPT !.selectedId = NoId]

\* onClick of a rendered object: the eraser deletes it, any other tool
\* selects it
clickObject(c) ==
  /\ board[c]
  /\ Flight(c)
  /\ \E k \in 1..Len(objects[c]), tool \in ClickTools :
       IF tool = TOOLS.ERASER
       THEN Apply(c, Op("delete", c, TRUE),
                  deleteById(St(c), Closure(c), objects[c][k].id))
       ELSE Apply(c, Op("select", c, TRUE),
                  [St(c) EXCEPT !.selectedId = objects[c][k].id])
  /\ UNCHANGED <<socket, board, isDrawing, currentShape, now>>

\* targetId = selectedId || id of the last object || null (the component
\* defines this handler; the toolbar deletes through the eraser click)
handleDelete(c) ==
  /\ board[c]
  /\ Flight(c)
  /\ LET targetId == IF selectedId[c] # NoId THEN selectedId[c]
                     ELSE IF Len(objects[c]) > 0
                          THEN objects[c][Len(objects[c])].id ELSE NoId
     IN Apply(c, Op("delete", c, targetId # NoId),
              deleteById(St(c), Closure(c), targetId))
  /\ UNCHANGED <<socket, board, isDrawing, currentShape, now>>

\* window.confirm answered with OK (defined by the component next to
\* handleDelete)
handleClear(c) ==
  /\ board[c]
  /\ Flight(c)
  /\ Apply(c, Op("clear", c, TRUE), commitObjects(St(c), Closure(c), <<>>))
  /\ UNCHANGED <<socket, board, isDrawing, currentShape, now>>

dragObjects(objs, id, pos) ==
  [k \in 1..Len(objs) |->
     IF objs[k].id = id
     THEN [objs[k] EXCEPT !.data.x = pos[1], !.data.y = pos[2]]
     ELSE objs[k]]

onDragEnd(c) ==
  /\ board[c]
  /\ Flight(c)
  /\ \E k \in 1..Len(objects[c]), pos \in DragTargets :
       Apply(c, Op("drag", c, TRUE),
             commitObjects(St(c), Closure(c),
                           dragObjects(objects[c], objects[c][k].id, pos)))
  /\ UNCHANGED <<socket, board, isDrawing, currentShape, now>>

manualSaveEffect(st, cl) ==
  IF ~cl.socket THEN st ELSE broadcastUpdate(st, cl, cl.objects)

handleManualSave(c) ==
  /\ board[c]
  /\ Flight(c)
  /\ Apply(c, Op("save", c, socket[c]), manualSaveEffect(St(c), Closure(c)))
  /\ UNCHANGED <<socket, board, isDrawing, currentShape, now>>

(* -------------------------- Suggestion Applier ------------------------ *)
\* a suggestion is {type, title}; the titles the AI collaborator returns
Suggestions == {[type |-> "shape_clean", title |-> "Tidy"],
                [type |-> "annotation", title |-> ""],
                [type |-> "diagram_improvement", title |-> "Extend"],
                [type |-> "other", title |-> "Add a Label"],
                [type |-> "other", title |-> "Nothing"]}

getPrimaryObject(cl) ==
  IF Len(cl.objects) # 0 THEN cl.objects[Len(cl.objects)] ELSE NoShape

applyShapeClean(st, cl, t, target) ==
  LET box == getBoundingBox(target) IN
  IF box = NoBox THEN [st EXCEPT !.ret = FALSE]
  ELSE LET rect == Obj(MkId("rect", t), TOOLS.RECTANGLE,
                       RectData(box.x, box.y, box.width, box.height))
           newObjects == Append(SelectSeq(cl.objects, LAMBDA o : o.id # target.id), rect)
       IN [commitObjects(st, cl, newObjects) EXCEPT !.selectedId = rect.id, !.ret = TRUE]

applyAnnotation(st, cl, t, target, suggestion) ==
  LET box == getBoundingBox(target) IN
  IF box = NoBox THEN [st EXCEPT !.ret = FALSE]
  ELSE LET label == IF Len(suggestion.title) # 0 THEN suggestion.title ELSE "Label"
           text == Obj(MkId("text", t), TOOLS.TEXT,
                       TextData(box.x + box.width \div 2 - 60,
                                box.y + box.height \div 2 - 10, label, 18, 120))
       IN [commitObjects(st, cl, Append(cl.objects, text))
             EXCEPT !.selectedId = text.id, !.ret = TRUE]

applyFlowExpansion(st, cl, t, target) ==
  LET box == getBoundingBox(target) IN
  IF box = NoBox THEN [st EXCEPT !.ret = FALSE]
  ELSE LET baseWidth == IF box.width # 0 THEN box.width ELSE 140
           baseHeight == IF box.height # 0 THEN box.height ELSE 80
           newRect == Obj(MkId("rect", t), TOOLS.RECTANGLE,
                          RectData(box.x + box.width + 80, box.y, baseWidth, baseHeight))
           sourceCenter == <<box.x + box.width \div 2, box.y + box.height \div 2>>
           targetCenter == <<newRect.data.x + baseWidth \div 2,
                             newRect.data.y + baseHeight \div 2>>
           newArrow == Obj(MkId("arrow", t), TOOLS.ARROW,
                           ArrowData(<<sourceCenter[1], sourceCenter[2],
                                       targetCenter[1], targetCenter[2]>>))
       IN [commitObjects(st, cl, cl.objects \o <<newRect, newArrow>>)
             EXCEPT !.selectedId = newRect.id, !.ret = TRUE]

\* the branch applySuggestion takes: the type, else the title keyword
suggestionKind(suggestion) ==
  LET title == Lower(suggestion.title) IN
  IF suggestion.type \in {"shape_clean", "annotation", "diagram_improvement"}
  THEN suggestion.type
  ELSE IF Includes(title, "rectangle") THEN "shape_clean"
  ELSE IF Includes(title, "label") THEN "annotation"
  ELSE IF Includes(title, "flow") THEN "diagram_improvement"
  ELSE "none"

SuggestionKinds == [suggestion \in Suggestions |-> suggestionKind(suggestion)]

\* faulty variant of applySuggestion: without the no-target test, an absent
\* target is measured as an empty text
applySuggestionNoGuard(st, cl, t, suggestion) ==
  LET primary == getPrimaryObject(cl)
      target == IF primary = NoShape THEN Obj(NoId, TOOLS.TEXT, NoData) ELSE primary
      kind == SuggestionKinds[suggestion]
  IN CASE kind = "shape_clean" -> applyShapeClean(st, cl, t, target)
       [] kind = "annotation" -> applyAnnotation(st, cl, t, target, suggestion)
       [] kind = "diagram_improvement" -> applyFlowExpansion(st, cl, t, target)
       [] OTHER -> [st EXCEPT !.ret = FALSE]

applySuggestion(st, cl, t, suggestion) ==
  LET target == getPrimaryObject(cl)
      kind == SuggestionKinds[suggestion]
  IN IF target = NoShape THEN [st EXCEPT !.ret = FALSE]
     ELSE CASE kind = "shape_clean" -> applyShapeClean(st, cl, t, target)
            [] kind = "annotation" -> applyAnnotation(st, cl, t, target, suggestion)
            [] kind = "diagram_improvement" -> applyFlowExpansion(st, cl, t, target)
            [] OTHER -> [st EXCEPT !.ret = FALSE]

\* the suggestion is one the AI panel shows
handleAcceptSuggestion(c) ==
  /\ board[c]
  /\ Flight(c)
  /\ Tick(c)
  /\ \E suggestion \in Suggestions :
       LET st == applySuggestion(St(c), Closure(c), now[c], suggestion) IN
         Apply(c, With(Op("apply", c, st.ret),
                       [suggestion |-> suggestion, before |-> objects[c]]), st)
  /\ UNCHANGED <<socket, board, isDrawing, currentShape>>

(* ------------------------- Command Interpreter ------------------------ *)
baseSize == 150
spacing == 50

ViewportCenter == <<InnerWidth \div 2, (InnerHeight - 120) \div 2>>

WordChars == LowerCase \o UpperCase \o Digits \o "_"
SpaceChars == " "
\* ch is one character of the class chars
InClass(ch, chars) == Len(ch) = 1 /\ IndexIn(chars, ch) # 0
IsSpace(ch) == InClass(ch, SpaceChars)

\* the number of consecutive characters from position i on that satisfy Is
Run(s, i, chars) ==
  IF i < 1 \/ i > Len(s) THEN 0
  ELSE CHOOSE n \in 0..(Len(s) - i + 1) :
         /\ \A k \in i..(i + n - 1) : InClass(CharAt(s, k), chars)
         /\ (i + n > Len(s) \/ ~InClass(CharAt(s, i + n), chars))

RECURSIVE parseInt(_)
parseInt(ds) ==
  IF Len(ds) = 0 THEN 0
  ELSE parseInt(SubSeq(ds, 1, Len(ds) - 1)) * 10 + (IndexIn(Digits, CharAt(ds, Len(ds))) - 1)

quantityMap == <<"one", "two", "three", "four", "five",
                 "six", "seven", "eight", "nine", "ten">>

\* lowerPrompt.match(/(\d+|one|two|...|ten)/): what matches at position i
numberAt(s, i) ==
  IF Run(s, i, Digits) > 0 THEN SubSeq(s, i, i + Run(s, i, Digits) - 1)
  ELSE IF \E k \in 1..10 : StartsAt(s, i, quantityMap[k])
       THEN quantityMap[CHOOSE k \in 1..10 : StartsAt(s, i, quantityMap[k])]
       ELSE ""

parseQuantity(lowerPrompt) ==
  LET hits == {i \in 1..Len(lowerPrompt) : numberAt(lowerPrompt, i) # ""} IN
  IF hits = {} THEN 1
  ELSE LET num == numberAt(lowerPrompt, SetMin(hits)) IN
       IF \E k \in 1..10 : quantityMap[k] = num
       THEN CHOOSE k \in 1..10 : quantityMap[k] = num
       ELSE IF parseInt(num) # 0 THEN parseInt(num) ELSE 1

\* lowerPrompt.match(/(?:make|create|draw|add)\s+(?:a\s+)?(\w+)/)?.[1]:
\* the word captured when the match starts at position i, "" when none does
Verbs == <<"make", "create", "draw", "add">>

shapeWordAt(s, i) ==
  IF ~ \E v \in 1..4 : StartsAt(s, i, Verbs[v]) THEN ""
  ELSE LET verb == Verbs[CHOOSE v \in 1..4 : StartsAt(s, i, Verbs[v])]
           j == i + Len(verb)
           k == j + Run(s, j, SpaceChars)
           a == k + 1 + Run(s, k + 1, SpaceChars)
       IN IF Run(s, j, SpaceChars) = 0 THEN ""
          ELSE IF StartsAt(s, k, "a") /\ Run(s, k + 1, SpaceChars) > 0
                  /\ Run(s, a, WordChars) > 0
               THEN SubSeq(s, a, a + Run(s, a, WordChars) - 1)
               ELSE IF Run(s, k, WordChars) > 0
                    THEN SubSeq(s, k, k + Run(s, k, WordChars) - 1)
                    ELSE ""

\* "" stands for undefined (no match)
shapeToCreate(lowerPrompt) ==
  LET hits == {i \in 1..Len(lowerPrompt) : shapeWordAt(lowerPrompt, i) # ""} IN
  IF hits = {} THEN "" ELSE shapeWordAt(lowerPrompt, SetMin(hits))

\* prompt.match(/["'](.+?)["']|text:\s*(.+?)(?:\s|$)|label:\s*(.+?)(?:\s|$)/i):
\* the text captured when the match starts at position i, "" when none does
IsQuote(ch) == ch = "'" \/ ch = "\""

prefixedText(s, j) ==
  LET k == j + Run(s, j, SpaceChars)
      end == IF \E e \in k..Len(s) : IsSpace(CharAt(s, e + 1)) \/ e = Len(s)
             THEN SetMin({e \in k..Len(s) : IsSpace(CharAt(s, e + 1)) \/ e = Len(s)})
             ELSE 0
  IN IF k <= Len(s) THEN SubSeq(s, k, end)
     ELSE IF j <= Len(s) THEN SubSeq(s, Len(s), Len(s))
     ELSE ""

textAt(s, i) ==
  IF IsQuote(CharAt(s, i)) /\ \E e \in (i + 2)..Len(s) : IsQuote(CharAt(s, e))
  THEN SubSeq(s, i + 1, SetMin({e \in (i + 2)..Len(s) : IsQuote(CharAt(s, e))}) - 1)
  ELSE IF StartsAt(Lower(s), i, "text:") THEN prefixedText(s, i + 5)
  ELSE IF StartsAt(Lower(s), i, "label:") THEN prefixedText(s, i + 6)
  ELSE ""

textContent(prompt) ==
  LET hits == {i \in 1..Len(prompt) : textAt(prompt, i) # ""} IN
  IF hits = {} THEN "Text" ELSE textAt(prompt, SetMin(hits))

IsTriangle(obj) == obj.type = TOOLS.PEN /\ obj.data.closed
IsCircle(obj) == obj.type = TOOLS.CIRCLE
IsRectangle(obj) == obj.type = TOOLS.RECTANGLE

\* the test of the find for the kind a prompt or command names
IsKind(obj, kind) ==
  CASE kind = "triangle" -> IsTriangle(obj)
    [] kind = "circle" -> IsCircle(obj)
    [] kind \in {"rectangle", "square"} -> IsRectangle(obj)
    [] OTHER -> FALSE

\* [...objects].reverse().find(...): the most recent object of the kind
findByKind(objs, kind) ==
  IF \E k \in 1..Len(objs) : IsKind(objs[k], kind)
  THEN objs[SetMax({k \in 1..Len(objs) : IsKind(objs[k], kind)})]
  ELSE NoShape

lastObject(objs) == IF Len(objs) > 0 THEN objs[Len(objs)] ELSE NoShape

\* the sum of the values at the JS indices of the given parity
RECURSIVE SumAt(_, _)
SumAt(pts, idx) ==
  IF idx = {} THEN 0
  ELSE LET i == CHOOSE i \in idx : TRUE IN pts[i] + SumAt(pts, idx \ {i})

OddIdx(pts) == {i \in 1..Len(pts) : i % 2 = 0}    \* JS indices 1, 3, 5, ...

\* the center of the new shape relative to the reference object, per kind
\* of the reference (createShapeFromPrompt and executeShapeCommand carry the
\* same four blocks); center is kept where the kind has no block
placeAt(referenceObj, position, center) ==
  LET d == referenceObj.data
      half == baseSize \div 2
  IN
  IF referenceObj = NoShape THEN center
  ELSE CASE position = "below" ->
         (CASE referenceObj.type = TOOLS.CIRCLE -> <<d.x, d.y + d.radius + half + spacing>>
            [] referenceObj.type = TOOLS.RECTANGLE ->
                 <<d.x + d.width \div 2, d.y + d.height + half + spacing>>
            [] referenceObj.type = TOOLS.PEN ->
                 <<SumAt(d.points, EvenIdx(d.points)) \div (Len(d.points) \div 2),
                   SetMax({d.points[i] : i \in OddIdx(d.points)}) + half + spacing>>
            [] OTHER -> center)
       [] position = "above" ->
         (CASE referenceObj.type = TOOLS.CIRCLE -> <<d.x, d.y - d.radius - half - spacing>>
            [] referenceObj.type = TOOLS.RECTANGLE ->
                 <<d.x + d.width \div 2, d.y - half - spacing>>
            [] referenceObj.type = TOOLS.PEN ->
                 <<SumAt(d.points, EvenIdx(d.points)) \div (Len(d.points) \div 2),
                   SetMin({d.points[i] : i \in OddIdx(d.points)}) - half - spacing>>
            [] OTHER -> center)
       [] position = "right" ->
         (CASE referenceObj.type = TOOLS.CIRCLE -> <<d.x + d.radius + half + spacing, d.y>>
            [] referenceObj.type = TOOLS.RECTANGLE ->
                 <<d.x + d.width + half + spacing, d.y + d.height \div 2>>
            [] OTHER -> center)
       [] position = "left" ->
         (CASE referenceObj.type = TOOLS.CIRCLE -> <<d.x - d.radius - half - spacing, d.y>>
            [] referenceObj.type = TOOLS.RECTANGLE ->
                 <<d.x - half - spacing, d.y + d.height \div 2>>
            [] OTHER -> center)
       [] OTHER -> center

\* the direction group the prompt names, "center" when it names none
promptPosition(lowerPrompt) ==
  IF Includes(lowerPrompt, "below") \/ Includes(lowerPrompt, "under")
     \/ Includes(lowerPrompt, "beneath") THEN "below"
  ELSE IF Includes(lowerPrompt, "above") \/ Includes(lowerPrompt, "over") THEN "above"
  ELSE IF Includes(lowerPrompt, "right") \/ Includes(lowerPrompt, "beside") THEN "right"
  ELSE IF Includes(lowerPrompt, "left") THEN "left"
  ELSE "center"

\* the reference object of a prompt that names a direction: the kind the
\* prompt mentions (below / above only), else the last object
promptReference(parsed, objs) ==
  LET byKind == findByKind(objs, parsed.mentions)
  IN CASE parsed.position \in {"below", "above"} ->
            IF byKind # NoShape THEN byKind ELSE lastObject(objs)
       [] parsed.position \in {"right", "left"} -> lastObject(objs)
       [] OTHER -> NoShape

\* the shape kind the prompt asks for, "" when it names none
shapeKind(word, lowerPrompt) ==
  LET Asked(w) == word = w \/ (word = "" /\ Includes(lowerPrompt, w))
  IN IF Asked("triangle") THEN "triangle"
     ELSE IF Asked("circle") THEN "circle"
     ELSE IF Asked("rectangle") \/ Asked("square") THEN "rectangle"
     ELSE IF Asked("arrow") THEN "arrow"
     ELSE IF Asked("text") \/ Asked("label") THEN "text"
     ELSE ""

promptShape(lowerPrompt) == shapeKind(shapeToCreate(lowerPrompt), lowerPrompt)

\* the shape of a kind centered at center; NoShape for any other kind
baseShape(kind, center, text, t) ==
  LET centerX == center[1]
      centerY == center[2]
      half == baseSize \div 2
  IN CASE kind = "triangle" ->
            Obj(MkId("shape", t), TOOLS.PEN,
                PenData(<<centerX, centerY - half, centerX - half, centerY + half,
                          centerX + half, centerY + half, centerX, centerY - half>>, TRUE))
       [] kind = "circle" ->
            Obj(MkId("shape", t), TOOLS.CIRCLE, CircleData(centerX, centerY, half))
       [] kind \in {"rectangle", "square"} ->
            Obj(MkId("shape", t), TOOLS.RECTANGLE,
                RectData(centerX - half, centerY - half, baseSize, baseSize))
       [] kind = "arrow" ->
            Obj(MkId("shape", t), TOOLS.ARROW,
                ArrowData(<<centerX - 100, centerY, centerX + 100, centerY>>))
       [] kind = "text" ->
            Obj(MkId("shape", t), TOOLS.TEXT, TextData(centerX - 50, centerY - 20, text, 24, 0))
       [] OTHER -> NoShape

\* faulty variant of shapeInstance: the row starts at the anchor instead of
\* being centered on it
shapeInstanceFromAnchor(shape, i, quantity, t) ==
  LET offsetX == IF quantity > 1 THEN i * (baseSize + spacing) ELSE 0
      moved == IF shape.type \in {TOOLS.PEN, TOOLS.ARROW}
               THEN [shape EXCEPT !.data.points =
                       [k \in 1..Len(shape.data.points) |->
                          IF k % 2 = 1 THEN shape.data.points[k] + offsetX
                          ELSE shape.data.points[k]]]
               ELSE [shape EXCEPT !.data.x = shape.data.x + offsetX]
  IN [moved EXCEPT !.id = MkIdN("shape", t, i)]

shapeInstance(shape, i, quantity, t) ==
  LET totalWidth == (baseSize + spacing) * quantity - spacing
      offsetX == IF quantity > 1
                 THEN (i * (baseSize + spacing)) - totalWidth \div 2 + baseSize \div 2
                 ELSE 0
      moved == IF shape.type \in {TOOLS.PEN, TOOLS.ARROW}
               THEN [shape EXCEPT !.data.points =
                       [k \in 1..Len(shape.data.points) |->
                          IF k % 2 = 1 THEN shape.data.points[k] + offsetX
                          ELSE shape.data.points[k]]]
               ELSE [shape EXCEPT !.data.x = shape.data.x + offsetX]
  IN [moved EXCEPT !.id = MkIdN("shape", t, i)]

shapesToCreate(shape, quantity, t) ==
  [k \in 1..(IF quantity > 0 THEN quantity ELSE 0) |->
     shapeInstance(shape, k - 1, quantity, t)]

\* what createShapeFromPrompt reads off the prompt text alone
interpret(prompt) ==
  LET lowerPrompt == Lower(prompt)
      kind == promptShape(lowerPrompt)
  IN [quantity |-> parseQuantity(lowerPrompt),
      position |-> promptPosition(lowerPrompt),
      mentions |-> IF Includes(lowerPrompt, "triangle") THEN "triangle"
                   ELSE IF Includes(lowerPrompt, "circle") THEN "circle"
                   ELSE IF Includes(lowerPrompt, "rectangle")
                           \/ Includes(lowerPrompt, "square") THEN "rectangle"
                   ELSE "",
      shape_type |-> kind,
      text_content |-> IF kind = "text" THEN textContent(prompt) ELSE ""]

\* the prompts the user submits (trimmed and not empty)
Prompts == {"add a circle", "make three circles"}
\* the prompts the interpreter is exercised with on its own
InterpreterPrompts ==
  {"add a circle", "add a rectangle", "make three circles", "draw 2 squares",
   "add a circle below", "add text below the rectangle",
   "add text above the circle", "add text right of the rectangle",
   "add text left of the circle",
   "draw a circle 3 times", "add a rectangle two times"}
\* the reading of each prompt
Interpreted == [prompt \in Prompts \cup InterpreterPrompts |-> interpret(prompt)]

\* faulty variant of createShapeFrom: the shapes are committed but the
\* caller is told that nothing was recognised
createShapeFromUnreported(st, cl, t, parsed) ==
  LET center == placeAt(promptReference(parsed, cl.objects), parsed.position,
                        ViewportCenter)
      newShape == baseShape(parsed.shape_type, center, parsed.text_content, t)
      created == shapesToCreate(newShape, parsed.quantity, t)
  IN IF newShape = NoShape THEN [st EXCEPT !.ret = FALSE]
     ELSE [commitObjects(st, cl, cl.objects \o created)
             EXCEPT !.selectedId = created[Len(created)].id, !.ret = FALSE]

\* faulty variant of createShapeFrom: a direction without a reference object
\* is refused
createShapeFromStrict(st, cl, t, parsed) ==
  LET referenceObj == promptReference(parsed, cl.objects)
      center == placeAt(referenceObj, parsed.position, ViewportCenter)
      newShape == baseShape(parsed.shape_type, center, parsed.text_content, t)
      created == shapesToCreate(newShape, parsed.quantity, t)
  IN IF newShape = NoShape \/ (parsed.position # "center" /\ referenceObj = NoShape)
     THEN [st EXCEPT !.ret = FALSE]
     ELSE [commitObjects(st, cl, cl.objects \o created)
             EXCEPT !.selectedId = created[Len(created)].id, !.ret = TRUE]

createShapeFrom(st, cl, t, parsed) ==
  LET center == placeAt(promptReference(parsed, cl.objects), parsed.position,
                        ViewportCenter)
      newShape == baseShape(parsed.shape_type, center, parsed.text_content, t)
      created == shapesToCreate(newShape, parsed.quantity, t)
  IN IF newShape = NoShape THEN [st EXCEPT !.ret = FALSE]
     ELSE [commitObjects(st, cl, cl.objects \o created)
             EXCEPT !.selectedId = created[Len(created)].id, !.ret = TRUE]

createShapeFromPrompt(st, cl, t, prompt) ==
  createShapeFrom(st, cl, t, Interpreted[prompt])

\* a structured command of the AI collaborator; quantity 0 stands for an
\* absent quantity, text_content "" for an absent one
Command(shape_type, quantity, position, reference) ==
  [action |-> "create_shape", shape_type |-> shape_type, quantity |-> quantity,
   position |-> position, reference |-> reference, text_content |-> ""]

executeShapeCommand(st, cl, t, command) ==
  LET referenceObj ==
        IF command.position \in {"", "center"} THEN NoShape
        ELSE IF command.reference \in {"last", ""} THEN lastObject(cl.objects)
        ELSE findByKind(cl.objects, command.reference)
      center == placeAt(referenceObj, command.position, ViewportCenter)
      shape == baseShape(IF command.shape_type = "label" THEN "" ELSE command.shape_type,
                         center,
                         IF command.text_content # "" THEN command.text_content ELSE "Text",
                         t)
      quantity == IF command.quantity # 0 THEN command.quantity ELSE 1
      created == shapesToCreate(shape, quantity, t)
      committed == commitObjects(st, cl, cl.objects \o created)
  IN IF shape = NoShape THEN [st EXCEPT !.ret = FALSE]
     ELSE IF Len(created) = 0
          THEN \* shapesToCreate[-1].id throws after commitObjects has run
               [committed EXCEPT !.raised = TRUE]
          ELSE [committed EXCEPT !.selectedId = created[Len(created)].id,
                                 !.ret = TRUE, !.created = st.created + 1]

\* for (const command of results) executeShapeCommand(command): every call
\* runs in the closure of the render handleCustomPrompt was started in; a
\* throw leaves the loop
RECURSIVE runCommands(_, _, _, _)
runCommands(st, cl, t, results) ==
  IF results = <<>> THEN st
  ELSE LET next == executeShapeCommand(st, cl, t, Head(results)) IN
       IF next.raised THEN next ELSE runCommands(next, cl, t, Tail(results))

\* what POST /ai/suggestions answers: commands, suggestions (here: none), or
\* a failure of the request
AIReplies == {<<>>,
              <<Command("circle", 1, "center", "")>>,
              <<Command("circle", -1, "", "")>>,
              <<Command("hexagon", 1, "", "")>>,
              <<Command("circle", 1, "", ""), Command("rectangle", 0, "below", "last")>>}

\* handleCustomPrompt up to its await, for a prompt of the set prompts: the
\* local parse, else the request.  The button is disabled while
\* loadingCustomAI is set.
submitPrompt(c, prompts) ==
  /\ board[c]
  /\ ~aiReq[c].pending
  /\ Tick(c)
  /\ \E prompt \in prompts :
       LET st == createShapeFromPrompt(St(c), Closure(c), now[c], prompt) IN
         /\ Apply(c, With(Op("prompt", c, st.ret), [prompt |-> prompt]), st)
         /\ aiReq' = [aiReq EXCEPT ![c] = IF st.ret THEN NoReq
                                          ELSE [pending |-> TRUE, cl |-> Closure(c),
                                                during |-> 0]]
  /\ UNCHANGED <<socket, board, isDrawing, currentShape>>

handleCustomPrompt(c) == submitPrompt(c, Prompts)

\* the continuation of handleCustomPrompt once the request has settled with
\* a reply of the set replies
settled(c, replies) ==
  /\ aiReq[c].pending
  /\ Tick(c)
  /\ \E results \in replies, failed \in BOOLEAN :
       LET isCommands == results # <<>> /\ results[1].action = "create_shape"
           st == IF ~failed /\ isCommands
                 THEN runCommands(St(c), aiReq[c].cl, now[c], results)
                 ELSE St(c)
       IN /\ failed => results = <<>>
          /\ Apply(c, With(Op("aiReply", c, st.created > 0),
                            [results |-> results, created |-> st.created,
                             failed |-> failed]), st)
  /\ aiReq' = [aiReq EXCEPT ![c] = NoReq]
  /\ UNCHANGED <<socket, board, isDrawing, currentShape>>

aiReply(c) == settled(c, AIReplies)

(* --------------------------- specification ---------------------------- *)
Next ==
  \E c \in Authors :
    \/ setupSocket(c)
    \/ loadBoard(c)
    \/ peerUpdate(c)
    \/ boardUpdated(c)
    \/ handleMouseDown(c)
    \/ handleMouseMove(c)
    \/ handleMouseUp(c)
    \/ handleUndo(c)
    \/ handleRedo(c)
    \/ clickObject(c)
    \/ handleDelete(c)
    \/ handleClear(c)
    \/ onDragEnd(c)
    \/ handleManualSave(c)
    \/ handleAcceptSuggestion(c)
    \/ handleCustomPrompt(c)
    \/ aiReply(c)

Spec == Init /\ [][Next]_vars

(* ------------------------------- the room ----------------------------- *)
\* every member of the room places texts and rectangles (the button goes
\* down and up at one position), undoes and redoes on its own client; the
\* hub relays each board_update to the other members
NextRoom ==
  \E c \in Clients :
    \/ setupSocket(c)
    \/ loadBoard(c)
    \/ boardUpdated(c)
    \/ handleMouseDown(c)
    \/ handleMouseUp(c)
    \/ handleUndo(c)
    \/ handleRedo(c)

\* a message the socket has received is dispatched to its board_updated
\* listener by the event loop of the client
FairRoom == \A c \in Clients : WF_vars(boardUpdated(c))

SpecRoom == Init /\ [][NextRoom]_vars /\ FairRoom

(* ----------------------- the interpreter on its own ------------------- *)
\* objects of documents stored in earlier sessions: the rectangle
\* {x:100, y:100, width:50, height:50}, a text, an arrow and an open pen line
RP == Obj(MkId("shape", -2), TOOLS.RECTANGLE, RectData(100, 100, 50, 50))
RT == Obj(MkId("shape", -3), TOOLS.TEXT, TextData(300, 200, "hi", 20, 0))
RA == Obj(MkId("shape", -4), TOOLS.ARROW, ArrowData(<<300, 200, 400, 200>>))
PL == Obj(MkId("shape", -5), TOOLS.PEN, PenData(<<300, 200, 400, 260>>, FALSE))

\* the documents the interpreter is given
Boards == {<<>>, <<R0>>, <<RP>>, <<R1>>, <<RP, R1>>, <<R1, RP>>,
           <<RT>>, <<RA>>, <<PL>>}

\* the single commands the AI collaborator answers with
CommandReplies ==
  {<<Command("circle", 1, "below", "last")>>,
   <<Command("circle", 1, "below", "rectangle")>>,
   <<Command("rectangle", 0, "right", "triangle")>>,
   <<Command("text", 1, "left", "")>>,
   <<Command("triangle", 2, "", "")>>,
   <<Command("arrow", 2, "", "")>>,
   <<Command("text", 3, "", "")>>}

\* the author has joined the room and loaded one of the documents of boards
Loaded(boards) ==
  /\ socket = [c \in Clients |-> c \in Authors]
  /\ board = [c \in Clients |-> c \in Authors]
  /\ \E objs \in boards :
       /\ objects = [c \in Clients |-> IF c \in Authors THEN objs ELSE <<>>]
       /\ history = [c \in Clients |-> IF c \in Authors THEN <<objs>> ELSE <<>>]
       /\ boardVersion = [c \in Clients |->
                            IF c \in Authors /\ objs # <<>> THEN 1 ELSE 0]
  /\ historyStep = [c \in Clients |-> 0]
  /\ selectedId = [c \in Clients |-> NoId]
  /\ isDrawing = [c \in Clients |-> FALSE]
  /\ currentShape = [c \in Clients |-> NoShape]
  /\ aiReq = [c \in Clients |-> NoReq]
  /\ inbox = [c \in Clients |-> <<>>]
  /\ now = [c \in Clients |-> 0]
  /\ NoPresence
  /\ mount = [c \in Clients |-> IF c \in Authors THEN Mounted ELSE Initial]
  /\ lastOp = Op("init", "none", FALSE)

InitPrompt == Loaded(Boards)

interpretPrompt(c) == submitPrompt(c, InterpreterPrompts)
commandReply(c) == settled(c, CommandReplies)

NextPrompt ==
  \E c \in Authors :
    \/ interpretPrompt(c)
    \/ commandReply(c)

SpecPrompt == InitPrompt /\ [][NextPrompt]_vars

(* --------------------- the Geometry Engine on its own ----------------- *)
\* stored objects to measure: rectangles drawn in each of the four drag
\* directions, a pen click (one pair), pen strokes of two and three pairs,
\* a pen object without points, an arrow click and an arrow
BoxShapes ==
  {R0, RP, R1, RT, RA, PL,
   Obj(MkId("shape", -6), TOOLS.RECTANGLE, RectData(80, 90, -30, 40)),
   Obj(MkId("shape", -7), TOOLS.RECTANGLE, RectData(80, 90, 30, -40)),
   Obj(MkId("shape", -8), TOOLS.PEN, PenData(<<80, 90>>, FALSE)),
   Obj(MkId("shape", -9), TOOLS.PEN, PenData(<<80, 90, 50, 120, 60, 40>>, FALSE)),
   Obj(MkId("shape", -10), TOOLS.PEN, PenData(<<>>, FALSE)),
   Obj(MkId("shape", -11), TOOLS.ARROW, ArrowData(<<80, 90, 80, 90>>))}

BoxBoards == {<<obj>> : obj \in BoxShapes}

InitBox == Loaded(BoxBoards)

\* the suggestions of the AI panel are applied to the stored object: each
\* one measures it with getBoundingBox
NextBox ==
  \E c \in Authors :
    \/ handleAcceptSuggestion(c)
    \/ handleUndo(c)
    \/ handleRedo(c)

SpecBox == InitBox /\ [][NextBox]_vars

(* ----------------------------- the session ---------------------------- *)
\* the connections of a page that are live
Live(c) == {i \in 1..Len(mount[c].sockets) : mount[c].sockets[i]}

\* the cleanup a run of the mount effect returned: it disconnects the
\* socket of the render that run belongs to, if there was one
cleanup(m) ==
  IF m.effect # 0 THEN [m.sockets EXCEPT ![m.effect] = FALSE] ELSE m.sockets

SessionOnly ==
  UNCHANGED <<board, objects, boardVersion, history, historyStep, selectedId,
              isDrawing, currentShape, aiReq, inbox, now, connectedUsers,
              cursors, hub>>

\* the dependency list of the mount effect names loadBoard and setupSocket,
\* which are declared with const further down: in a build that keeps const
\* the first render throws a ReferenceError and the page never mounts
mountRaises(c) ==
  /\ mount[c].phase = "initial"
  /\ mount' = [mount EXCEPT ![c].phase = "crashed"]
  /\ lastOp' = [Op("render", c, FALSE) EXCEPT !.raised = TRUE]
  /\ UNCHANGED socket
  /\ SessionOnly

\* in a build that lowers const to var the two names read undefined, and
\* the list changes when socket does.  setSocket(newSocket) of a run
\* changes it, so after the render that follows React runs the cleanup of
\* the last run and then the effect again: loadBoard() and setupSocket()
effectRerun(c) ==
  /\ mount[c].phase = "mounted"
  /\ mount[c].socket # mount[c].effect
  /\ Len(mount[c].sockets) < MaxSockets
  /\ mount' = [mount EXCEPT ![c] =
                 [phase |-> "mounted",
                  sockets |-> Append(cleanup(mount[c]), TRUE),
                  socket |-> Len(mount[c].sockets) + 1,
                  effect |-> mount[c].socket,
                  loads |-> mount[c].loads + 1]]
  /\ lastOp' = Op("effect", c, TRUE)
  /\ UNCHANGED socket
  /\ SessionOnly

\* the user leaves the page: React runs the cleanup of the last run
unmount(c) ==
  /\ mount[c].phase = "mounted"
  /\ mount' = [mount EXCEPT ![c].phase = "unmounted",
                            ![c].sockets = cleanup(mount[c])]
  /\ lastOp' = Op("unmount", c, TRUE)
  /\ UNCHANGED socket
  /\ SessionOnly

\* the handlers of a page run while it is mounted
Open(c) == mount[c].phase = "mounted"

NextSession ==
  \E c \in Authors :
    \/ setupSocket(c)
    \/ mountRaises(c)
    \/ effectRerun(c)
    \/ loadBoard(c)
    \/ unmount(c)
    \/ Open(c) /\ handleMouseDown(c)
    \/ Open(c) /\ handleUndo(c)

SpecSession == Init /\ [][NextSession]_vars

(* ------------------------------- presence ----------------------------- *)
\* the hub keeps the participants of the room; it tells the members who
\* joins and who leaves in the order it happened, and relays cursor
\* positions without order.  Me is the client that listens.
Me == "c1"
CursorPositions == {<<50, 50>>}
UserOrder == <<"u1", "u2">>
InRoom(u) == u \in hub.room

\* the entry the hub keeps for a participant
Presence(u) == [user_id |-> u, name |-> u, cursor |-> <<0, 0>>]

\* the roster the hub sends to a client that joins
UsersList(room) ==
  LET Pick(u) == u \in room
  IN [i \in 1..Len(SelectSeq(UserOrder, Pick)) |->
        Presence(SelectSeq(UserOrder, Pick)[i])]

\* the author has loaded the board and joined a room that holds some of
\* the users: the hub has answered join_board with users_list
InitPresence ==
  /\ socket = [c \in Clients |-> c \in Authors]
  /\ board = [c \in Clients |-> c \in Authors]
  /\ objects = [c \in Clients |-> <<>>]
  /\ history = [c \in Clients |-> IF c \in Authors THEN << <<>> >> ELSE <<>>]
  /\ boardVersion = [c \in Clients |-> 0]
  /\ historyStep = [c \in Clients |-> 0]
  /\ selectedId = [c \in Clients |-> NoId]
  /\ isDrawing = [c \in Clients |-> FALSE]
  /\ currentShape = [c \in Clients |-> NoShape]
  /\ aiReq = [c \in Clients |-> NoReq]
  /\ inbox = [c \in Clients |-> <<>>]
  /\ now = [c \in Clients |-> 0]
  /\ connectedUsers = [c \in Clients |-> <<>>]
  /\ cursors = [c \in Clients |-> [u \in Users |-> NoCursor]]
  /\ \E room \in SUBSET Users :
       hub = [room |-> room,
              events |-> << [type |-> "users_list", users |-> UsersList(room)] >>,
              cursorEvents |-> {}, left |-> {}]
  /\ mount = [c \in Clients |-> IF c \in Authors THEN Mounted ELSE Initial]
  /\ lastOp = Op("init", "none", FALSE)

\* a presence step leaves the document and the page alone
PresenceOnly ==
  UNCHANGED <<socket, board, objects, boardVersion, history, historyStep,
              selectedId, isDrawing, currentShape, aiReq, inbox, now, mount>>

\* a user joins the room: the hub tells the others
joinBoard(u) ==
  /\ ~InRoom(u)
  /\ Len(hub.events) < MaxEvents
  /\ hub' = [hub EXCEPT !.room = @ \cup {u},
                        !.events = Append(@, [type |-> "user_joined", user_id |-> u,
                                              name |-> u])]
  /\ lastOp' = Op("join_board", u, TRUE)
  /\ UNCHANGED <<connectedUsers, cursors>>
  /\ PresenceOnly

\* a user leaves the room or loses the connection
leaveBoard(u) ==
  /\ InRoom(u)
  /\ Len(hub.events) < MaxEvents
  /\ hub' = [hub EXCEPT !.room = @ \ {u},
                        !.events = Append(@, [type |-> "user_left", user_id |-> u,
                                              name |-> u])]
  /\ lastOp' = Op("leave_board", u, TRUE)
  /\ UNCHANGED <<connectedUsers, cursors>>
  /\ PresenceOnly

\* a user in the room moves the pointer (socket.emit('cursor_move') of
\* that user's handleMouseMove)
cursorMove(u) ==
  /\ InRoom(u)
  /\ Cardinality(hub.cursorEvents) < MaxCursorEvents
  /\ \E pos \in CursorPositions :
       /\ [user_id |-> u, cursor |-> pos] \notin hub.cursorEvents
       /\ hub' = [hub EXCEPT !.cursorEvents = @ \cup {[user_id |-> u, cursor |-> pos]}]
  /\ lastOp' = Op("cursor_move", u, TRUE)
  /\ UNCHANGED <<connectedUsers, cursors>>
  /\ PresenceOnly

\* the next presence event reaches the client
Arrives(c, type) ==
  /\ c = Me /\ socket[c]
  /\ hub.events # <<>>
  /\ Head(hub.events).type = type

\* setConnectedUsers(data.users)
usersList(c) ==
  /\ Arrives(c, "users_list")
  /\ LET data == Head(hub.events) IN
       /\ connectedUsers' = [connectedUsers EXCEPT ![c] = data.users]
       /\ hub' = [hub EXCEPT !.events = Tail(@),
                             !.left = @ \ {data.users[i].user_id :
                                             i \in 1..Len(data.users)}]
  /\ lastOp' = Op("users_list", c, TRUE)
  /\ UNCHANGED cursors
  /\ PresenceOnly

\* setConnectedUsers(prev => [...prev, {user_id, name, cursor: {x: 0, y: 0}}])
userJoinedEffect(prev, data) ==
  Append(prev, [user_id |-> data.user_id, name |-> data.name, cursor |-> <<0, 0>>])

userJoined(c) ==
  /\ Arrives(c, "user_joined")
  /\ LET data == Head(hub.events) IN
       /\ connectedUsers' = [connectedUsers EXCEPT
                               ![c] = userJoinedEffect(connectedUsers[c], data)]
       /\ hub' = [hub EXCEPT !.events = Tail(@), !.left = @ \ {data.user_id}]
       /\ lastOp' = With(Op("user_joined", c, TRUE), data)
  /\ UNCHANGED cursors
  /\ PresenceOnly

\* prev.filter(u => u.user_id !== data.user_id); delete newCursors[data.user_id]
userLeft(c) ==
  /\ Arrives(c, "user_left")
  /\ LET data == Head(hub.events)
         Stays(entry) == entry.user_id # data.user_id
     IN
       /\ connectedUsers' = [connectedUsers EXCEPT ![c] = SelectSeq(@, Stays)]
       /\ cursors' = [cursors EXCEPT ![c][data.user_id] = NoCursor]
       /\ hub' = [hub EXCEPT !.events = Tail(@), !.left = @ \cup {data.user_id}]
       /\ lastOp' = With(Op("user_left", c, TRUE), data)
  /\ PresenceOnly

\* setCursors(prev => ({...prev, [data.user_id]: data.cursor})); cursor
\* events are delivered in any order
cursorMoved(c) ==
  /\ c = Me /\ socket[c]
  /\ \E data \in hub.cursorEvents :
       /\ cursors' = [cursors EXCEPT ![c][data.user_id] = data.cursor]
       /\ hub' = [hub EXCEPT !.cursorEvents = @ \ {data}]
       /\ lastOp' = With(Op("cursor_moved", c, TRUE), data)
  /\ UNCHANGED connectedUsers
  /\ PresenceOnly

NextPresence ==
  \/ \E u \in Users :
       \/ joinBoard(u)
       \/ leaveBoard(u)
       \/ cursorMove(u)
  \/ \E c \in Authors :
       \/ usersList(c)
       \/ userJoined(c)
       \/ userLeft(c)
       \/ cursorMoved(c)

SpecPresence == InitPresence /\ [][NextPresence]_vars

(* ------------------------------ properties ---------------------------- *)
\* the handler that ran in the step was op, at client c
Ran(c, op) == lastOp.op = op /\ lastOp.c = c

\* the operations that commit new objects to the document
CommitOps == {"draw", "createText", "delete", "clear", "drag", "prompt",
              "aiReply", "apply"}

\* the step committed: a commit hands its objects to broadcastUpdate
Committed(c) == lastOp.c = c /\ lastOp.op \in CommitOps /\ lastOp.emitted # <<>>

\* C1: a commit of new objects N from snapshots S and cursor c leaves the
\* snapshots S[0..c] followed by N and the cursor on N: every redo entry
\* above c is discarded and nothing below it is lost.
C1_CommitTruncatesAndAppends ==
  [][\A c \in Clients :
       Committed(c)' =>
         /\ history'[c] = Append(SubSeq(history[c], 1, historyStep[c] + 1), objects'[c])
         /\ historyStep'[c] = Len(history'[c]) - 1]_vars

\* a text commit has appended its snapshot and left the cursor on it
C1_Witness ==
  /\ Committed("c1") /\ lastOp.op = "createText"
  /\ Len(history["c1"]) = 2 /\ historyStep["c1"] = 1
  /\ history["c1"][1] # history["c1"][2]

\* C2: undo at cursor 0 changes nothing and sends nothing; otherwise the
\* cursor decreases by exactly 1 and the objects become snapshots[new cursor].
C2_Undo ==
  [][\A c \in Clients :
       Ran(c, "undo")' =>
         IF historyStep[c] = 0
         THEN /\ objects'[c] = objects[c]
              /\ historyStep'[c] = historyStep[c]
              /\ boardVersion'[c] = boardVersion[c]
              /\ lastOp'.emitted = <<>>
         ELSE /\ historyStep'[c] = historyStep[c] - 1
              /\ objects'[c] = history[c][historyStep'[c] + 1]]_vars

\* an undo has moved the cursor back and changed the objects
C2_Witness ==
  /\ Ran("c1", "undo") /\ lastOp.ret
  /\ historyStep["c1"] + 2 <= Len(history["c1"])
  /\ objects["c1"] # history["c1"][historyStep["c1"] + 2]

\* C3: redo with the cursor on the last snapshot changes nothing; otherwise
\* the cursor increases by exactly 1 and the objects become
\* snapshots[new cursor].
C3_Redo ==
  [][\A c \in Clients :
       Ran(c, "redo")' =>
         IF historyStep[c] >= Len(history[c]) - 1
         THEN /\ objects'[c] = objects[c]
              /\ historyStep'[c] = historyStep[c]
              /\ boardVersion'[c] = boardVersion[c]
              /\ lastOp'.emitted = <<>>
         ELSE /\ historyStep'[c] = historyStep[c] + 1
              /\ objects'[c] = history[c][historyStep'[c] + 1]]_vars

\* a redo has moved the cursor forward and changed the objects
C3_Witness ==
  /\ Ran("c1", "redo") /\ lastOp.ret
  /\ historyStep["c1"] >= 1
  /\ objects["c1"] # history["c1"][historyStep["c1"]]

\* C4: undo and redo leave the snapshots exactly as they were; when they
\* restore a snapshot, the restored objects are the document's objects and
\* are sent to the hub in exactly one board_update.
C4_UndoRedoKeepHistory ==
  [][\A c \in Clients :
       (Ran(c, "undo") \/ Ran(c, "redo"))' =>
         /\ history'[c] = history[c]
         /\ lastOp'.ret =>
              /\ historyStep'[c] # historyStep[c]
              /\ Len(lastOp'.emitted) = 1
              /\ lastOp'.emitted[1].objects = objects'[c]
              /\ objects'[c] = history[c][historyStep'[c] + 1]]_vars

\* a redo below the top of a history of three snapshots has been broadcast
C4_Witness ==
  /\ lastOp.op \in {"undo", "redo"} /\ lastOp.c = "c1"
  /\ Len(lastOp.emitted) = 1
  /\ Len(history["c1"]) = 3 /\ historyStep["c1"] = 1

\* C5: a received board_updated carrying objects O and version v makes the
\* document exactly O at version v, whatever the client held before.
C5_FullSnapshotOverwrite ==
  [][\A c \in Clients :
       Ran(c, "board_updated")' =>
         /\ inbox[c] # <<>>
         /\ objects'[c] = Head(inbox[c]).objects
         /\ boardVersion'[c] = Head(inbox[c]).version]_vars

\* a board_updated has replaced local changes that were committed at a
\* higher version
C5_Witness ==
  /\ Ran("c1", "board_updated")
  /\ Len(history["c1"]) >= 2
  /\ objects["c1"] # history["c1"][historyStep["c1"] + 1]
  /\ objects["c1"] = lastOp.data.objects
  /\ boardVersion["c1"] = lastOp.data.version

\* C6: every local commit (drawing, text, delete, clear, drag, interpreted
\* command, AI shape command, suggestion apply) leaves the client's version
\* strictly greater than it was before the commit.
C6_CommitIncreasesVersion ==
  [][\A c \in Clients :
       Committed(c)' => boardVersion'[c] > boardVersion[c]]_vars

\* an AI reply has committed shapes
C6_Witness ==
  /\ Committed("c1") /\ lastOp.op = "aiReply" /\ lastOp.ret
  /\ Len(objects["c1"]) >= 1

\* the operations under which the version is said never to decrease
VersionOps == CommitOps \cup {"undo", "redo", "save", "board_updated"}

\* C7: over local commits, undo / redo, manual saves and received
\* board_updated messages the version of a client never decreases.
C7_VersionNeverDecreases ==
  [][\A c \in Clients :
       (lastOp.c = c /\ lastOp.op \in VersionOps)' =>
         boardVersion'[c] >= boardVersion[c]]_vars

\* a board_updated has been handled by a client that had committed locally
C7_Witness ==
  /\ Ran("c1", "board_updated")
  /\ Len(history["c1"]) >= 2
  /\ boardVersion["c1"] = lastOp.data.version

\* the step ran one command, suggestion or prompt and it did not succeed:
\* createShapeFromPrompt or applySuggestion returned false, or the single
\* command of an AI reply returned false or threw
Failed(c) ==
  /\ lastOp.c = c
  /\ \/ lastOp.op \in {"prompt", "apply"} /\ ~lastOp.ret
     \/ /\ lastOp.op = "aiReply" /\ ~lastOp.data.failed
        /\ Len(lastOp.data.results) = 1
        /\ ~lastOp.ret

\* C8: a command, suggestion or prompt that does not succeed (returns false
\* or raises) leaves objects, version and history exactly as they were, and
\* has neither committed nor broadcast.
C8_FailureChangesNothing ==
  [][\A c \in Clients :
       Failed(c)' =>
         /\ objects'[c] = objects[c]
         /\ boardVersion'[c] = boardVersion[c]
         /\ history'[c] = history[c]
         /\ historyStep'[c] = historyStep[c]
         /\ lastOp'.emitted = <<>>]_vars

\* the single command of an AI reply has failed by throwing
C8_Witness ==
  /\ Failed("c1") /\ lastOp.op = "aiReply" /\ lastOp.raised

\* C9: applying any suggestion to a board without objects fails (no
\* target) and leaves objects, version and history unchanged.
C9_ApplyOnEmptyBoard ==
  [][\A c \in Clients :
       (Ran(c, "apply")' /\ objects[c] = <<>>) =>
         /\ ~lastOp'.ret /\ ~lastOp'.raised
         /\ objects'[c] = objects[c]
         /\ boardVersion'[c] = boardVersion[c]
         /\ history'[c] = history[c]
         /\ historyStep'[c] = historyStep[c]
         /\ lastOp'.emitted = <<>>]_vars

\* a suggestion of a type with an applier has been refused on an empty
\* board that has a history of earlier commits
C9_Witness ==
  /\ Ran("c1", "apply") /\ ~lastOp.ret
  /\ lastOp.data.before = <<>>
  /\ lastOp.data.suggestion.type = "annotation"
  /\ Len(history["c1"]) >= 2

\* the ids of the objects of objs
Ids(objs) == {objs[k].id : k \in 1..Len(objs)}

\* C10: a successful suggestion apply pushes exactly one history snapshot
\* and emits exactly one board_update, selects an object it created, and a
\* single undo right after it restores the objects as they were before it.
C10_ApplyIsOneCommit ==
  [][\A c \in Clients :
       /\ (Ran(c, "apply") /\ lastOp.ret)' =>
            /\ history'[c] = Append(SubSeq(history[c], 1, historyStep[c] + 1),
                                    objects'[c])
            /\ historyStep'[c] = Len(history'[c]) - 1
            /\ Len(lastOp'.emitted) = 1
            /\ lastOp'.emitted[1].objects = objects'[c]
            /\ selectedId'[c] \in Ids(objects'[c]) \ Ids(objects[c])
       /\ (Ran(c, "apply") /\ lastOp.ret /\ Ran(c, "undo")') =>
            objects'[c] = lastOp.data.before]_vars

\* an undo has run right after a successful apply
C10_Witness ==
  /\ Ran("c1", "undo") /\ lastOp.ret
  /\ historyStep["c1"] + 2 = Len(history["c1"])
  /\ selectedId["c1"] \in Ids(history["c1"][historyStep["c1"] + 2])
  /\ selectedId["c1"].p \in {"rect", "text"}

\* C11: a successful shape_clean apply removes the target (the last object),
\* keeps all other objects in their order, and puts a rectangle with the
\* target's bounding box last; the number of objects is unchanged.
C11_ShapeCleanReplacesTarget ==
  [][\A c \in Clients :
       (/\ Ran(c, "apply") /\ lastOp.ret
        /\ SuggestionKinds[lastOp.data.suggestion] = "shape_clean")' =>
         LET old == objects[c]
             new == objects'[c]
             target == old[Len(old)]
             box == getBoundingBox(target)
             rect == new[Len(new)]
         IN /\ Len(new) = Len(old)
            /\ SubSeq(new, 1, Len(new) - 1) = SubSeq(old, 1, Len(old) - 1)
            /\ \A k \in 1..Len(new) : new[k] # target
            /\ rect.type = TOOLS.RECTANGLE
            /\ rect.data.x = box.x /\ rect.data.y = box.y
            /\ rect.data.width = box.width /\ rect.data.height = box.height]_vars

\* shape_clean has replaced the last of two objects
C11_Witness ==
  /\ Ran("c1", "apply") /\ lastOp.ret
  /\ SuggestionKinds[lastOp.data.suggestion] = "shape_clean"
  /\ Len(lastOp.data.before) = 2
  /\ Len(objects["c1"]) = 2
  /\ objects["c1"][2].id.p = "rect"

\* C12: in every reachable state the ids of the objects of a client's
\* document are pairwise distinct.
C12_IdsDistinct ==
  \A c \in Clients :
    \A i, j \in 1..Len(objects[c]) :
      i # j => objects[c][i].id # objects[c][j].id

\* a document holds an object received from a room member and one created
\* locally
C12_Witness ==
  /\ Len(objects["c1"]) >= 2
  /\ objects["c1"][1] = R1
  /\ lastOp.op \in {"createText", "draw"}

\* the operations that add objects to the document
AddOps == {"draw", "createText", "prompt", "aiReply"}

\* obj with its x and y cleared
Unplaced(obj) == [obj EXCEPT !.data.x = 0, !.data.y = 0]

\* C13: a local mutation that adds objects keeps the previous sequence as an
\* unchanged prefix; a delete removes only the objects with the targeted id
\* and keeps the order of the rest; a drag changes only x and y of the
\* dragged object.
C13_AppendOnlyExceptDeletions ==
  [][\A c \in Clients :
       LET old == objects[c]
           new == objects'[c]
       IN /\ ( /\ Committed(c)' /\ lastOp'.ret
               /\ \/ lastOp'.op \in AddOps
                  \/ /\ lastOp'.op = "apply"
                     /\ SuggestionKinds[lastOp'.data.suggestion]
                          \in {"annotation", "diagram_improvement"} ) =>
               /\ Len(new) > Len(old)
               /\ SubSeq(new, 1, Len(old)) = old
          /\ (Committed(c)' /\ lastOp'.op = "delete") =>
               \E targetId \in Ids(old) \cup {selectedId[c]} :
                 new = SelectSeq(old, LAMBDA o : o.id # targetId)
          /\ (Committed(c)' /\ lastOp'.op = "drag") =>
               /\ Len(new) = Len(old)
               /\ \E k \in 1..Len(old) :
                    /\ Unplaced(new[k]) = Unplaced(old[k])
                    /\ \A j \in 1..Len(old) : j # k => new[j] = old[j]]_vars

\* the first of two objects has been dragged
C13_Witness ==
  /\ Ran("c1", "drag")
  /\ Len(objects["c1"]) = 2
  /\ objects["c1"][1].data.x = 10 /\ objects["c1"][1].data.y = 20
  /\ objects["c1"][2].data.x # 10

\* C14: loadBoard leaves the loaded objects and version in the document, the
\* history holding exactly one snapshot equal to those objects and the cursor
\* on it (0); an undo or a redo that follows at once changes nothing and
\* emits nothing.
C14_LoadSeedsHistory ==
  [][\A c \in Clients :
       /\ Ran(c, "loadBoard")' =>
            /\ \E data \in StoredBoards :
                 objects'[c] = data.objects /\ boardVersion'[c] = data.version
            /\ history'[c] = <<objects'[c]>>
            /\ historyStep'[c] = 0
       /\ (Ran(c, "loadBoard") /\ lastOp'.c = c /\ lastOp'.op \in {"undo", "redo"}) =>
            /\ ~lastOp'.ret
            /\ lastOp'.emitted = <<>>
            /\ objects'[c] = objects[c] /\ boardVersion'[c] = boardVersion[c]
            /\ history'[c] = history[c] /\ historyStep'[c] = historyStep[c]]_vars

\* the stored rectangle has been loaded and the user has pressed undo
C14_Witness ==
  /\ Ran("c1", "undo")
  /\ objects["c1"] = <<R0>> /\ boardVersion["c1"] = 1
  /\ history["c1"] = << <<R0>> >> /\ historyStep["c1"] = 0

\* a member other than c has emitted a board_update in the step
OtherEmit(c) == lastOp.c # c /\ lastOp.emitted # <<>>

C16_InterpreterFirst ==
  [][\A c \in Clients :
       Ran(c, "prompt")' =>
         /\ aiReq'[c].pending <=> ~lastOp'.ret
         /\ ~lastOp'.ret =>
              /\ objects'[c] = objects[c] /\ boardVersion'[c] = boardVersion[c]
              /\ history'[c] = history[c] /\ historyStep'[c] = historyStep[c]
              /\ lastOp'.emitted = <<>>
         /\ lastOp'.ret => lastOp'.emitted # <<>>]_vars

\* a prompt the interpreter does not recognise has been submitted on the
\* stored board and the AI request is pending
C16_Witness ==
  /\ Ran("c1", "prompt") /\ ~lastOp.ret
  /\ aiReq["c1"].pending
  /\ objects["c1"] = <<R0>>

\* the kind of shape an object shows
KindOf(obj) ==
  CASE obj.type = TOOLS.PEN /\ obj.data.closed -> "triangle"
    [] obj.type = TOOLS.CIRCLE -> "circle"
    [] obj.type = TOOLS.RECTANGLE -> "rectangle"
    [] obj.type = TOOLS.ARROW -> "arrow"
    [] obj.type = TOOLS.TEXT -> "text"
    [] OTHER -> "pen"

\* the prompts made of a verb, an optional quantity and a shape noun
QuantityPrompts ==
  {"add a circle", "add a rectangle", "make three circles", "draw 2 squares"}

\* what such a prompt asks for
Requested(prompt) ==
  CASE prompt = "add a circle" -> [quantity |-> 1, kind |-> "circle"]
    [] prompt = "add a rectangle" -> [quantity |-> 1, kind |-> "rectangle"]
    [] prompt = "make three circles" -> [quantity |-> 3, kind |-> "circle"]
    [] prompt = "draw 2 squares" -> [quantity |-> 2, kind |-> "rectangle"]

\* C17: for a prompt made of a verb, an optional quantity (digits or a
\* number word) and a shape noun, the interpreter succeeds and appends
\* exactly that many shapes of that kind, one when no quantity is given.
C17_QuantityAndShape ==
  [][\A c \in Clients :
       (Ran(c, "prompt") /\ lastOp.data.prompt \in QuantityPrompts)' =>
         LET old == objects[c]
             new == objects'[c]
             want == Requested(lastOp'.data.prompt)
         IN /\ lastOp'.ret
            /\ Len(new) = Len(old) + want.quantity
            /\ SubSeq(new, 1, Len(old)) = old
            /\ \A k \in (Len(old) + 1)..Len(new) : KindOf(new[k]) = want.kind]_vars

\* "make three circles" has been submitted on the empty board
C17_Witness ==
  /\ Ran("c1", "prompt")
  /\ lastOp.data.prompt = "make three circles"
  /\ history["c1"] = << <<>> >>

\* the point a created shape is centered at (the inverse of baseShape)
CenterOf(obj) ==
  LET d == obj.data IN
  CASE obj.type = TOOLS.CIRCLE -> <<d.x, d.y>>
    [] obj.type = TOOLS.RECTANGLE -> <<d.x + d.width \div 2, d.y + d.height \div 2>>
    [] obj.type = TOOLS.TEXT -> <<d.x + 50, d.y + 20>>
    [] obj.type = TOOLS.ARROW -> <<(d.points[1] + d.points[3]) \div 2, d.points[2]>>
    [] OTHER -> <<d.points[1], d.points[2] + baseSize \div 2>>

\* below the bounding box of ref: its horizontal center, and its bottom
\* edge + spacing + baseSize/2
BelowBox(ref) ==
  LET box == getBoundingBox(ref)
  IN <<box.x + box.width \div 2, box.y + box.height + spacing + baseSize \div 2>>

\* the step ran the single command of an AI reply, with the given position
RanCommand(c, position) ==
  /\ Ran(c, "aiReply")
  /\ Len(lastOp.data.results) = 1
  /\ lastOp.data.results[1].position = position

\* C18: a shape requested below a rectangle reference (whatever the signs
\* of its width and height) is centered at the horizontal center of the
\* reference's bounding box and at its bottom edge + spacing + baseSize/2,
\* by the interpreter ("add a circle below" with a rectangle as the last
\* object and no circle on the board) and by an AI command alike.
C18_BelowRectangle ==
  [][\A c \in Clients :
       LET old == objects[c]
           new == objects'[c]
       IN /\ ( /\ (Ran(c, "prompt") /\ lastOp.data.prompt = "add a circle below")'
               /\ lastObject(old).type = TOOLS.RECTANGLE
               /\ findByKind(old, "circle") = NoShape ) =>
                 /\ lastOp'.ret
                 /\ Len(new) = Len(old) + 1
                 /\ CenterOf(new[Len(new)]) = BelowBox(lastObject(old))
          /\ ( /\ RanCommand(c, "below")'
               /\ \/ /\ lastOp'.data.results[1].reference = "last"
                     /\ lastObject(old).type = TOOLS.RECTANGLE
                  \/ /\ lastOp'.data.results[1].reference = "rectangle"
                     /\ findByKind(old, "rectangle") # NoShape ) =>
                 /\ lastOp'.ret
                 /\ Len(new) = Len(old) + 1
                 /\ CenterOf(new[Len(new)]) =
                      BelowBox(IF lastOp'.data.results[1].reference = "last"
                               THEN lastObject(old)
                               ELSE findByKind(old, "rectangle"))]_vars

\* "add a circle below" has put a circle at (125, 275) below the rectangle
\* {x:100, y:100, width:50, height:50}
C18_Witness ==
  /\ Ran("c1", "prompt") /\ lastOp.data.prompt = "add a circle below"
  /\ Len(objects["c1"]) = 2
  /\ objects["c1"][1] = RP
  /\ objects["c1"][2].type = TOOLS.CIRCLE
  /\ objects["c1"][2].data.x = 125 /\ objects["c1"][2].data.y = 275

\* the prompts that name a direction and the kind of the reference
ReferencePrompts ==
  {"add text below the rectangle", "add text above the circle",
   "add text right of the rectangle", "add text left of the circle"}

\* the direction and the reference kind such a prompt names
Named(prompt) ==
  CASE prompt = "add text below the rectangle" ->
         [position |-> "below", kind |-> "rectangle"]
    [] prompt = "add text above the circle" ->
         [position |-> "above", kind |-> "circle"]
    [] prompt = "add text right of the rectangle" ->
         [position |-> "right", kind |-> "rectangle"]
    [] prompt = "add text left of the circle" ->
         [position |-> "left", kind |-> "circle"]

\* the most recent object of the kind when there is one, else the last
NamedReference(objs, kind) ==
  IF findByKind(objs, kind) # NoShape THEN findByKind(objs, kind)
  ELSE lastObject(objs)

\* C19: for a prompt that names a direction (below, above, right, left) and
\* the kind of the reference, the new shape is placed relative to the most
\* recent object of that kind when the document holds one, and relative to
\* the last object otherwise.
C19_ReferenceResolution ==
  [][\A c \in Clients :
       (Ran(c, "prompt") /\ lastOp.data.prompt \in ReferencePrompts)' =>
         LET old == objects[c]
             new == objects'[c]
             named == Named(lastOp'.data.prompt)
         IN /\ lastOp'.ret
            /\ Len(new) = Len(old) + 1
            /\ CenterOf(new[Len(new)]) =
                 placeAt(NamedReference(old, named.kind), named.position,
                         ViewportCenter)]_vars

\* "add text right of the rectangle" has been run on a document whose
\* rectangle is followed by a circle
C19_Witness ==
  /\ Ran("c1", "prompt")
  /\ lastOp.data.prompt = "add text right of the rectangle"
  /\ Len(objects["c1"]) = 3
  /\ objects["c1"][1] = RP /\ objects["c1"][2] = R1
  /\ objects["c1"][3].type = TOOLS.TEXT

\* the prompts that name a direction, and the direction each names
DirectionPrompts == ReferencePrompts \cup {"add a circle below"}
Direction(prompt) ==
  IF prompt = "add a circle below" THEN "below" ELSE Named(prompt).position

\* no object of the document can serve as the reference of the direction:
\* the document is empty or holds only kinds the direction has no rule for
NoUsableReference(objs, position) ==
  \A k \in 1..Len(objs) :
    \/ objs[k].type \in {TOOLS.ARROW, TOOLS.TEXT}
    \/ objs[k].type = TOOLS.PEN /\ position \in {"right", "left"}

\* C20: a direction whose reference cannot be resolved (empty document, or
\* for an AI command no object of the named kind) or is of a kind the
\* direction has no rule for is no error: the command succeeds and its one
\* shape is centered at the center of the viewport.
C20_UnresolvedReferenceCenters ==
  [][\A c \in Clients :
       LET old == objects[c]
           new == objects'[c]
       IN /\ ( /\ (Ran(c, "prompt") /\ lastOp.data.prompt \in DirectionPrompts)'
               /\ NoUsableReference(old, Direction(lastOp'.data.prompt)) ) =>
                 /\ lastOp'.ret /\ ~lastOp'.raised
                 /\ Len(new) = Len(old) + 1
                 /\ CenterOf(new[Len(new)]) = ViewportCenter
          /\ ( /\ \E position \in {"below", "above", "right", "left"} :
                    /\ RanCommand(c, position)'
                    /\ \/ NoUsableReference(old, position)
                       \/ /\ lastOp'.data.results[1].reference \notin {"last", ""}
                          /\ findByKind(old, lastOp'.data.results[1].reference) = NoShape ) =>
                 /\ lastOp'.ret /\ ~lastOp'.raised
                 /\ Len(new) = Len(old) + 1
                 /\ CenterOf(new[Len(new)]) = ViewportCenter]_vars

\* "add text right of the rectangle" has put its text at the center of the
\* viewport on a document that holds only an arrow
C20_Witness ==
  /\ Ran("c1", "prompt")
  /\ lastOp.data.prompt = "add text right of the rectangle"
  /\ Len(objects["c1"]) = 2
  /\ objects["c1"][1] = RA
  /\ objects["c1"][2].data.x = InnerWidth \div 2 - 50

\* the prompts and the AI commands that ask for several copies
LayoutPrompts == {"draw a circle 3 times", "add a rectangle two times"}
Copies(prompt) == IF prompt = "draw a circle 3 times" THEN 3 ELSE 2

\* the step created n copies in one call of the interpreter or of
\* executeShapeCommand
Laid(c, n) ==
  \/ /\ Ran(c, "prompt") /\ lastOp.data.prompt \in LayoutPrompts
     /\ n = Copies(lastOp.data.prompt)
  \/ /\ Ran(c, "aiReply") /\ Len(lastOp.data.results) = 1
     /\ lastOp.data.results[1].position = ""
     /\ n = lastOp.data.results[1].quantity

\* obj moved horizontally by dx
ShiftX(obj, dx) ==
  IF obj.type \in {TOOLS.PEN, TOOLS.ARROW}
  THEN [obj EXCEPT !.data.points =
          [k \in 1..Len(obj.data.points) |->
             IF k % 2 = 1 THEN obj.data.points[k] + dx ELSE obj.data.points[k]]]
  ELSE [obj EXCEPT !.data.x = obj.data.x + dx]

\* the horizontal offset of copy i (0-based) of n
RowOffset(i, n) ==
  i * (baseSize + spacing) - (n * (baseSize + spacing) - spacing) \div 2
    + baseSize \div 2

\* C21: a request for n > 1 copies appends exactly n objects with pairwise
\* distinct ids that differ only by their horizontal position; copy i is
\* the shape centered on the anchor (here the viewport center) moved by
\* RowOffset(i, n), and the offsets of copy i and copy n-1-i are opposite.
C21_RowLayout ==
  [][\A c \in Clients : \A n \in 2..MaxObjs :
       Laid(c, n)' =>
         LET old == objects[c]
             new == objects'[c]
             copy(i) == new[Len(old) + 1 + i]
             plain(i) == [ShiftX(copy(i), 0 - RowOffset(i, n)) EXCEPT !.id = NoId]
         IN /\ lastOp'.ret
            /\ Len(new) = Len(old) + n
            /\ SubSeq(new, 1, Len(old)) = old
            /\ \A i, j \in 0..(n - 1) : i # j => copy(i).id # copy(j).id
            /\ \A i \in 0..(n - 1) :
                 /\ plain(i) = plain(0)
                 /\ CenterOf(plain(i)) = ViewportCenter
                 /\ RowOffset(i, n) + RowOffset(n - 1 - i, n) = 0]_vars

\* three circles have been laid out on the empty document
C21_Witness ==
  /\ Ran("c1", "prompt") /\ lastOp.data.prompt = "draw a circle 3 times"
  /\ Len(objects["c1"]) = 3
  /\ objects["c1"][1].data.x = InnerWidth \div 2 - (baseSize + spacing)
  /\ objects["c1"][3].data.x = InnerWidth \div 2 + (baseSize + spacing)

\* the objects of the documents of all clients
DocObjects == UNION {{objects[c][k] : k \in 1..Len(objects[c])} : c \in Clients}

\* C22: for every rectangle, whatever the signs of its width and height,
\* getBoundingBox returns a box with non-negative width and height that
\* spans the x and y extents of the corners (x, y) and (x+width, y+height).
C22_RectangleBox ==
  \A obj \in DocObjects :
    obj.type = TOOLS.RECTANGLE =>
      LET d == obj.data
          box == getBoundingBox(obj)
      IN /\ box # NoBox
         /\ box.width >= 0 /\ box.height >= 0
         /\ {box.x, box.x + box.width} = {d.x, d.x + d.width}
         /\ {box.y, box.y + box.height} = {d.y, d.y + d.height}

\* shape_clean has measured a rectangle drawn down and to the left and put
\* its box in place
C22_Witness ==
  /\ Ran("c1", "apply") /\ lastOp.ret
  /\ SuggestionKinds[lastOp.data.suggestion] = "shape_clean"
  /\ lastOp.data.before[1].type = TOOLS.RECTANGLE
  /\ lastOp.data.before[1].data.width < 0 /\ lastOp.data.before[1].data.height > 0
  /\ objects["c1"][1].data.width > 0

\* the x values and the y values of a point list
Xs(pts) == {pts[i] : i \in {j \in 1..Len(pts) : j % 2 = 1}}
Ys(pts) == {pts[i] : i \in {j \in 1..Len(pts) : j % 2 = 0}}

\* C23: for a pen or arrow object getBoundingBox returns absent when the
\* point list holds fewer than 2 coordinate pairs, and otherwise the box
\* from the minimum to the maximum of the x values and of the y values.
C23_PointListBox ==
  \A obj \in DocObjects :
    obj.type \in {TOOLS.PEN, TOOLS.ARROW} =>
      LET pts == obj.data.points
          box == getBoundingBox(obj)
      IN IF Len(pts) \div 2 < 2 THEN box = NoBox
         ELSE box = Box(SetMin(Xs(pts)), SetMin(Ys(pts)),
                        SetMax(Xs(pts)) - SetMin(Xs(pts)),
                        SetMax(Ys(pts)) - SetMin(Ys(pts)))

\* shape_clean has measured a pen click (one coordinate pair)
C23_Witness ==
  /\ Ran("c1", "apply")
  /\ SuggestionKinds[lastOp.data.suggestion] = "shape_clean"
  /\ lastOp.data.before[1].type = TOOLS.PEN
  /\ Len(lastOp.data.before[1].data.points) = 2

\* the roster entries and the cursor the client holds for a user
Entries(c, u) == {i \in 1..Len(connectedUsers[c]) : connectedUsers[c][i].user_id = u}
HoldsCursor(c, u) == cursors[c][u] # NoCursor

\* C24: the roster holds at most one entry per user_id, and once the client
\* has handled user_left for a user it holds neither a roster entry nor a
\* cursor for that user until the user joins again, whatever the order in
\* which the cursor events arrive
C24_PresenceMatchesRoom ==
  \A u \in Users :
    /\ Cardinality(Entries(Me, u)) <= 1
    /\ u \in hub.left => Entries(Me, u) = {} /\ ~HoldsCursor(Me, u)

\* the client has handled the user_left of a user whose cursor it showed,
\* and one more cursor event of that user has arrived since
C24_Witness ==
  /\ lastOp.op = "cursor_moved"
  /\ lastOp.data.user_id \in hub.left
  /\ ~InRoom(lastOp.data.user_id)

\* C25: a received board_updated changes only the objects and the version
\* of the document: the history snapshots, the history cursor, the
\* selection and a drawing in progress are exactly what they were
C25_BoardUpdatedFrame ==
  [][lastOp'.op = "board_updated" =>
       LET c == lastOp'.c IN
         /\ objects'[c] = lastOp'.data.objects
         /\ boardVersion'[c] = lastOp'.data.version
         /\ history'[c] = history[c]
         /\ historyStep'[c] = historyStep[c]
         /\ selectedId'[c] = selectedId[c]
         /\ isDrawing'[c] = isDrawing[c]
         /\ currentShape'[c] = currentShape[c]]_vars

\* a board_updated has replaced the objects of a client that has undo
\* steps, a selection and a shape half drawn
C25_Witness ==
  /\ lastOp.op = "board_updated"
  /\ Len(history[lastOp.c]) >= 2
  /\ selectedId[lastOp.c] # NoId
  /\ isDrawing[lastOp.c] /\ currentShape[lastOp.c] # NoShape
  /\ objects[lastOp.c] # history[lastOp.c][historyStep[lastOp.c] + 1]

\* C26: an undo that directly follows a local commit restores the objects
\* to exactly what they were just before that commit, whatever commits,
\* undos, redos and received board_updated messages came earlier
C26_UndoRestoresPreCommit ==
  [][\A c \in Clients :
       (Committed(c) /\ Ran(c, "undo")' /\ lastOp'.ret) =>
          objects'[c] = lastOp.before]_vars

\* an undo has stepped back from a local commit that was made on top of
\* a document received through board_updated
C26_Witness ==
  /\ Ran("c1", "undo") /\ lastOp.ret
  /\ historyStep["c1"] + 2 = Len(history["c1"])
  /\ lastOp.before = history["c1"][historyStep["c1"] + 2]
  /\ \E k \in 1..Len(lastOp.before) : lastOp.before[k] = R1

\* C27: once a board has loaded, the history holds at least one snapshot
\* and the cursor points at one of them (0 <= cursor <= snapshots - 1),
\* after any commits, undos, redos, manual saves and remote updates,
\* several commits issued by one handler included
C27_CursorInHistory ==
  \A c \in Clients :
    board[c] => /\ Len(history[c]) >= 1
                /\ 0 <= historyStep[c]
                /\ historyStep[c] <= Len(history[c]) - 1

\* one handler has issued two commits (an AI reply of two commands), on a
\* client that erased an object while the request was pending
C27_Witness ==
  /\ Ran("c1", "aiReply")
  /\ lastOp.data.created = 2
  /\ Len(history["c1"]) = 2
  /\ historyStep["c1"] = 1
  /\ Len(lastOp.before) < Len(history["c1"][1])

\* the kinds of the shapes a reply of commands asks for, in order
RECURSIVE CommandKinds(_)
CommandKinds(results) ==
  IF results = <<>> THEN <<>>
  ELSE LET command == Head(results)
           quantity == IF command.quantity # 0 THEN command.quantity ELSE 1
       IN [i \in 1..quantity |-> command.shape_type] \o CommandKinds(Tail(results))

\* the reply is handled in the render the prompt was submitted in: the
\* document has not changed while the request was pending
FreshReply(c) == aiReq[c].pending /\ aiReq[c].cl.objects = objects[c]

\* C28: when every one of the k create_shape commands of an AI reply
\* succeeds (k shapes are reported as created), the document afterwards is
\* the objects that were there before followed by the shapes of all k
\* commands
C28_AllCommandsInDocument ==
  [][\A c \in Clients :
       ( /\ FreshReply(c)
         /\ Ran(c, "aiReply")'
         /\ lastOp'.data.created > 0
         /\ lastOp'.data.created = Len(lastOp'.data.results) ) =>
         LET old == objects[c]
             new == objects'[c]
             added == SubSeq(new, Len(old) + 1, Len(new))
         IN /\ Len(new) >= Len(old)
            /\ SubSeq(new, 1, Len(old)) = old
            /\ [i \in 1..Len(added) |-> KindOf(added[i])]
                  = CommandKinds(lastOp'.data.results)]_vars

\* a reply of two commands has been handled and both are reported as
\* created
C28_Witness ==
  /\ Ran("c1", "aiReply")
  /\ Len(lastOp.data.results) = 2
  /\ lastOp.data.created = 2
  /\ lastOp.before = history["c1"][1]

\* C29: the shapes of an AI reply are appended to the document as it
\* stands when the reply is handled: whatever was committed locally or
\* received through board_updated while the request was in flight is still
\* in the document afterwards
C29_ReplyKeepsInFlightChanges ==
  [][\A c \in Clients :
       (Ran(c, "aiReply")' /\ lastOp'.ret) =>
          /\ Len(objects'[c]) > Len(objects[c])
          /\ SubSeq(objects'[c], 1, Len(objects[c])) = objects[c]]_vars

\* an AI reply has created a shape after a board_updated was handled
\* while the request was in flight
C29_Witness ==
  /\ Ran("c1", "aiReply") /\ lastOp.ret
  /\ Len(lastOp.data.results) = 1
  /\ lastOp.before = <<R1>>
  /\ history["c1"] = << <<>>, objects["c1"] >>
  /\ Len(objects["c1"]) = 1

\* C30: while a board session is open it holds at most one live hub
\* connection: the socket is opened once and the board loaded once, no
\* later render opens a further connection or seeds the history again, and
\* when the session ends the connection that was opened is disconnected
C30_OneConnection ==
  [][\A c \in Clients :
       /\ Cardinality(Live(c))' <= 1
       /\ Len(mount'[c].sockets) <= 1
       /\ Ran(c, "loadBoard")' => ~board[c]
       /\ Ran(c, "unmount")' => Live(c)' = {}]_vars

\* a session has connected, loaded the board, recorded a local commit and
\* ended
C30_Witness ==
  /\ Ran("c1", "unmount")
  /\ mount["c1"].sockets # <<>>
  /\ Len(history["c1"]) >= 2

====
